---- MODULE Spec2Model ----
(***************************************************************************)
(* The codex app-server client of ccstats: a child process speaking        *)
(* line-delimited JSON over stdin/stdout, a background readLoop, and       *)
(* sendRequest / sendNotification / Close, driven by                       *)
(* fetchRateLimitsFromAppServer.                                           *)
(***************************************************************************)
EXTENDS Integers, Sequences, FiniteSets, TLC

\* ------------------------------------------------------------------ bounds
\* lines the child writes to its stdout while fetchRateLimitsFromAppServer runs
MaxLines == 2
\* the clock stops here (seconds since fetchRateLimitsFromAppServer began)
MaxTime == 4
\* the same two bounds for the specifications of single send operations
MaxCallLines == 2
MaxCallTime == 1
\* calls of Close on one client, where Close is studied by itself
MaxCloses == 2
\* whole hours between now and the reset time given to FormatRelativeTimeFrom
MaxFormatHours == 49
\* command-line arguments given to run
MaxArgs == 2
\* lines the child writes where a full c.ch is studied
MaxQueueLines == 18
\* writes of the child that end without a newline, between two newlines
MaxTail == 1

\* largest request identifier given to idMatches
MaxId == 3

\* -------------------------------------------------------- program constants
appServerInitTimeout == 3
appServerRequestTimeout == 4
\* make(chan rpcMessage, 16)
ChanCap == 16

Min(a, b) == IF a <= b THEN a ELSE b

\* ------------------------------------------------------------- JSON values
\* A raw JSON value as json.RawMessage holds it: t is the kind of the text,
\* n the number (or the error code of an error object), s the string (or the
\* message of an error object), ok whether an object has the shape of
\* rateLimitsResponse.  "absent" is the empty RawMessage (len(raw) == 0).
J(t, n, s, ok) == [t |-> t, n |-> n, s |-> s, ok |-> ok]
JAbsent == J("absent", 0, "", FALSE)
JNull == J("null", 0, "", FALSE)
JInt(n) == J("int", n, "", FALSE)
JFloat(n) == J("float", n, "", FALSE)
JStr(s) == J("str", 0, s, FALSE)
JErr(code, message) == J("obj", code, message, FALSE)
\* a result object; n names the plan type it carries, ok its shape
JObj(n, ok) == J("obj", n, "", ok)

\* json.Unmarshal(raw, &intID): a JSON integer is stored, null leaves the zero
\* value and is no error, anything else is an error
UnmarshalInt(raw) ==
    IF raw.t = "int" THEN [err |-> FALSE, v |-> raw.n]
    ELSE IF raw.t = "null" THEN [err |-> FALSE, v |-> 0]
    ELSE [err |-> TRUE, v |-> 0]

\* json.Unmarshal(raw, &strID)
UnmarshalString(raw) ==
    IF raw.t = "str" THEN [err |-> FALSE, v |-> raw.s]
    ELSE IF raw.t = "null" THEN [err |-> FALSE, v |-> ""]
    ELSE [err |-> TRUE, v |-> ""]

DigitChar(d) ==
    CASE d = 0 -> "0" [] d = 1 -> "1" [] d = 2 -> "2" [] d = 3 -> "3"
      [] d = 4 -> "4" [] d = 5 -> "5" [] d = 6 -> "6" [] d = 7 -> "7"
      [] d = 8 -> "8" [] d = 9 -> "9"

RECURSIVE NatToString(_)
NatToString(n) ==
    IF n < 10 THEN DigitChar(n) ELSE NatToString(n \div 10) \o DigitChar(n % 10)

\* fmt.Sprintf("%d", id)
SprintfD(id) == IF id < 0 THEN "-" \o NatToString(0 - id) ELSE NatToString(id)

\* idMatches without its second half: only the integer form is accepted
idMatchesIntOnly(raw, id) ==
    IF raw.t = "absent" THEN FALSE
    ELSE IF ~UnmarshalInt(raw).err THEN UnmarshalInt(raw).v = id
    ELSE FALSE

\* idMatches that accepts any identifier that is there
idMatchesAny(raw, id) == raw.t # "absent"

idMatches(raw, id) ==
    IF raw.t = "absent" THEN FALSE
    ELSE IF ~UnmarshalInt(raw).err THEN UnmarshalInt(raw).v = id
    ELSE IF ~UnmarshalString(raw).err THEN UnmarshalString(raw).v = SprintfD(id)
    ELSE FALSE

\* ------------------------------------------------------------ rpcMessage
\* *rpcError: nil, or Code and Message
NilError == [nil |-> TRUE, Code |-> 0, Message |-> ""]
RpcError(code, message) == [nil |-> FALSE, Code |-> code, Message |-> message]

\* the zero rpcMessage
ZeroMsg == [ID |-> JAbsent, Method |-> "", Result |-> JAbsent, Error |-> NilError]

\* The text of one JSON object on the wire, by the raw value of its four
\* members the client looks at (JAbsent: the member is not there).
Wire(id, method, result, error) ==
    [id |-> id, method |-> method, result |-> result, error |-> error]

\* json.Unmarshal(line, &msg) of an object: RawMessage members keep the raw
\* text (null included), a string member takes a string or null, the error
\* member takes an object or null; any other kind is an UnmarshalTypeError.
UnmarshalMsg(w) ==
    LET badMethod == w.method.t \notin {"absent", "null", "str"}
        badError == w.error.t \notin {"absent", "null", "obj"}
    IN  [err |-> badMethod \/ badError,
         msg |-> [ID |-> w.id,
                  Method |-> IF w.method.t = "str" THEN w.method.s ELSE "",
                  Result |-> w.result,
                  Error |-> IF w.error.t = "obj"
                            THEN RpcError(w.error.n, w.error.s)
                            ELSE NilError]]

\* ------------------------------------------------------------ child output
\* One byte run of the child's output: a whitespace character, or a maximal
\* run of other text: the text of one JSON object (k = "object"), the literal
\* null (k = "null"), another JSON value (k = "value") or no JSON at all
\* (k = "garbage").
WS(c) == [k |-> "ws", c |-> c, w |-> Wire(JAbsent, JAbsent, JAbsent, JAbsent)]
Text(k, w) == [k |-> k, c |-> "", w |-> w]
ObjectText(w) == Text("object", w)
NoWire == Wire(JAbsent, JAbsent, JAbsent, JAbsent)

isSpace(b) == b.k = "ws" /\ b.c \in {" ", "\n", "\r", "\t"}

RECURSIVE trimStart(_, _, _)
trimStart(b, start, end) ==
    IF start < end /\ isSpace(b[start + 1]) THEN trimStart(b, start + 1, end) ELSE start

RECURSIVE trimEnd(_, _, _)
trimEnd(b, start, end) ==
    IF end > start /\ isSpace(b[end]) THEN trimEnd(b, start, end - 1) ELSE end

\* b[start:end] with 0-based start and exclusive end
bytesTrimSpace(b) ==
    LET start == trimStart(b, 0, Len(b))
        end == trimEnd(b, start, Len(b))
    IN  SubSeq(b, start + 1, end)

\* json.Unmarshal(line, &msg) on a trimmed, non-empty line
UnmarshalLine(line) ==
    IF Len(line) # 1 THEN [err |-> TRUE, msg |-> ZeroMsg]
    ELSE IF line[1].k = "object" THEN UnmarshalMsg(line[1].w)
    ELSE IF line[1].k = "null" THEN [err |-> FALSE, msg |-> ZeroMsg]
    ELSE [err |-> TRUE, msg |-> ZeroMsg]

\* json.Unmarshal(msg.Result, out) with out a *rateLimitsResponse: the empty
\* RawMessage is "unexpected end of JSON input", null leaves out untouched, an
\* object decodes when its members have the expected kinds.
ZeroResponse == [set |-> FALSE, plan |-> 0]
UnmarshalResult(raw) ==
    IF raw.t = "null" THEN [err |-> FALSE, set |-> FALSE, v |-> ZeroResponse]
    ELSE IF raw.t = "obj" /\ raw.ok
         THEN [err |-> FALSE, set |-> TRUE, v |-> [set |-> TRUE, plan |-> raw.n]]
    ELSE [err |-> TRUE, set |-> FALSE, v |-> ZeroResponse]

\* ------------------------------------------------------------------ errors
Err(kind, text) == [kind |-> kind, text |-> text]
ErrNil == Err("nil", "")
\* context.DeadlineExceeded, what ctx.Err() is once the timer fired
ErrDeadline == Err("context", "context deadline exceeded")
errNotInitialized == Err("errNotInitialized", "codex app-server not initialized")
\* fmt.Errorf("codex app-server error: %s", msg.Error.Message)
ErrRemote(message) == Err("errorf", "codex app-server error: " \o message)
ErrParse == Err("errorf", "codex app-server parse: ")
\* the error of a Write on a pipe nobody reads, or on a closed file
ErrWrite == Err("write", "broken pipe")
ErrStart == Err("errorf", "codex app-server start: ")

\* -------------------------------------------------------------- the lines
\* what json.Marshal(req) and json.Marshal(note) produce
Payload(hasId, id, method, params) ==
    [hasId |-> hasId, id |-> id, method |-> method, params |-> params]
Request(id, method, params) == Payload(TRUE, id, method, params)
Notification(method, params) == Payload(FALSE, 0, method, params)
NoPayload == Payload(FALSE, 0, "", "")
\* one Write of payload + '\n' reaches the pipe in two parts
Chunk(p, part) == [p |-> p, part |-> part]

Resp(id, result) == ObjectText(Wire(id, JAbsent, result, JAbsent))
ErrResp(id, result, code, message) ==
    ObjectText(Wire(id, JAbsent, result, JErr(code, message)))

\* the lines the child may write (without the newline that ends each) while
\* fetchRateLimitsFromAppServer runs
LineSet ==
    { <<WS("\t"), Resp(JInt(1), JObj(0, TRUE)), WS("\r")>>,
      <<Resp(JStr("2"), JObj(1, TRUE))>>,
      <<Resp(JInt(2), JObj(0, FALSE))>>,
      <<ErrResp(JInt(2), JAbsent, -1, "Not initialized")>>,
      <<ObjectText(Wire(JAbsent, JStr("notify"), JAbsent, JAbsent))>>,
      <<Text("garbage", NoWire)>> }

\* the lines the child may write while one sendRequest is studied
CallLineSet ==
    { <<WS(" "), WS("\r")>>,
      <<Text("garbage", NoWire)>>,
      <<Text("null", NoWire)>>,
      <<WS("\t"), Resp(JInt(2), JObj(1, TRUE)), WS("\r")>>,
      <<Resp(JStr("2"), JObj(1, TRUE))>>,
      <<Resp(JStr("12"), JObj(2, TRUE))>>,
      <<Resp(JInt(2), JObj(0, FALSE))>>,
      <<ObjectText(Wire(JStr("2"), JStr("ping"), JAbsent, JAbsent))>>,
      <<ErrResp(JInt(2), JAbsent, -1, "Not initialized")>>,
      <<ErrResp(JAbsent, JObj(1, TRUE), -2, "not initialized")>>,
      <<ErrResp(JStr("12"), JAbsent, 7, "boom")>>,
      <<ObjectText(Wire(JAbsent, JStr("notify"), JAbsent, JAbsent))>> }

\* the calls studied: c.sendRequest(ctx, id, "method", nil, out), by the id, by
\* whether out is given, and by the second at which ctx is done (0: it is done
\* when the call begins)
CallSet ==
    { [id |-> 2, hasOut |-> TRUE, ctx |-> 1],
      [id |-> 12, hasOut |-> FALSE, ctx |-> 1],
      [id |-> 2, hasOut |-> FALSE, ctx |-> 0] }

\* the lines of a child that answers no request
SilentLineSet ==
    { <<WS(" "), WS("\r")>>,
      <<Text("garbage", NoWire)>>,
      <<ObjectText(Wire(JAbsent, JStr("notify"), JAbsent, JAbsent))>> }

\* lines of the child that readLoop has put on c.ch by the time the handshake
\* is over and that initialize did not take: a second answer to initialize, a
\* late error, a notification, an answer to a request not yet made
StaleLineSet ==
    { <<Resp(JInt(1), JObj(0, TRUE))>>,
      <<ErrResp(JInt(1), JAbsent, -1, "boom")>>,
      <<ObjectText(Wire(JAbsent, JStr("notify"), JAbsent, JAbsent))>>,
      <<Resp(JStr("2"), JObj(1, TRUE))>> }

\* the lines the child may write after them
ReplyLineSet ==
    { <<Resp(JInt(2), JObj(1, TRUE))>>,
      <<ErrResp(JInt(2), JAbsent, -1, "Not initialized")>>,
      <<Resp(JInt(1), JObj(0, TRUE))>>,
      <<Text("garbage", NoWire)>> }

\* what the child may write without a newline after it: the answer to
\* request 1
TailSet == { <<Resp(JInt(1), JObj(2, TRUE))>> }

\* the line it may write then: a bare newline, which ends what was written
\* before it
TailLineSet == { <<>> }

\* the lines the child may write while two sendRequest calls wait at once
ConcLineSet ==
    { <<Resp(JInt(1), JObj(1, TRUE))>>,
      <<Resp(JStr("2"), JObj(1, TRUE))>>,
      <<ObjectText(Wire(JAbsent, JStr("notify"), JAbsent, JAbsent))>> }

\* ------------------------------------------------------------------- state
Threads == {"main", "A", "B", "N"}

VARIABLES
    now,          \* seconds since fetchRateLimitsFromAppServer began
    ctxDeadline,  \* deadline of ctx (part_004:216)
    pc,           \* per thread: where it stands
    frame,        \* per thread: arguments of the running sendRequest /
                  \* sendNotification / Close and where it returns to
    ret,          \* per thread: error returned by the last send operation
    outVal,       \* per thread: what out points at
    lastMsg,      \* per thread: message taken last from c.ch in this call
    nRecv,        \* per thread: messages taken from c.ch in this call
    wErr,         \* per thread: the Write in progress has failed
    mu,           \* c.mu: "free" or the thread holding it
    stdinBuf,     \* what reached the child's stdin, in parts
    stdinClosed,  \* c.stdin.Close() was called
    stdoutClosed, \* c.stdout.Close() was called
    child,        \* "none", "running", "zombie" (dead, not waited), "reaped"
    termBy,       \* what ended the child: "", "self", "ctx", "close"
    outHist,      \* lines the child wrote to its stdout
    tail,         \* what the child wrote after the last newline
    rdPos,        \* lines ReadBytes returned
    bufEnd,       \* lines a Read of c.stdout has brought into c.reader's buffer
    rpc,          \* readLoop: "off", "read", "send", "stopped"
    held,         \* msg in readLoop
    ch,           \* c.ch
    delivered,    \* every message readLoop sent on c.ch, in order
    received,     \* every receive from c.ch, in order: the thread and the message
    closeCount,   \* calls of Close
    initErr,      \* what client.initialize returned
    clientRet,    \* newAppServerClient's first result: "nil", "client"
    ctorErr,      \* newAppServerClient's second result
    fetchErr,     \* fetchRateLimitsFromAppServer's result
    usage,        \* the *Usage being filled
    closeLog,     \* the steps Close has attempted, each with whether it erred
    arg,          \* the arguments of the function under study
    res           \* what it returned

threadVars == <<pc, frame, ret, outVal, lastMsg, nRecv, wErr>>
pipeVars == <<mu, stdinBuf, stdinClosed, stdoutClosed>>
childVars == <<child, termBy, outHist, tail>>
readerVars == <<rdPos, bufEnd, rpc, held, ch, delivered, received>>
fetchVars == <<closeCount, initErr, clientRet, ctorErr, fetchErr, usage>>
pureVars == <<arg, res>>
studyVars == <<closeLog, pureVars>>
clientVars == <<now, ctxDeadline, threadVars, pipeVars, childVars, readerVars, fetchVars>>
vars == <<clientVars, studyVars>>

Frame(id, method, params, hasOut, ctx, cont) ==
    [id |-> id, method |-> method, params |-> params, hasOut |-> hasOut,
     ctx |-> ctx, cont |-> cont]
NoFrame == Frame(0, "", "", FALSE, 0, "idle")

ZeroUsage == [RateSource |-> "", planSet |-> FALSE, plan |-> 0]

\* ------------------------------------------------------------- primitives
\* a token that counts as fired from the start
ctxDoneAlways(deadline) == TRUE

\* <-ctx.Done() is ready once the deadline of ctx has passed
ctxDone(deadline) == now >= deadline

\* a Lock that never waits
muLockableAlways == TRUE

\* c.mu.Lock() returns only while nobody holds the mutex
muLockable == mu = "free"

\* a Write on c.stdin fails: the file was closed, or the child's end is gone
stdinBroken == stdinClosed \/ child # "running"

\* The part of sendRequest's loop after msg := <-c.ch (usage_test.go:286-304):
\* done = the call returns, err = what it returns, set/out = what it stored in out
\* the same with the identifier looked at before the error descriptor
sendRequestStepIdFirst(msg, id, hasOut) ==
    IF ~idMatches(msg.ID, id)
    THEN [done |-> FALSE, err |-> ErrNil, set |-> FALSE, out |-> ZeroResponse]
    ELSE IF ~msg.Error.nil
    THEN [done |-> TRUE, err |-> ErrRemote(msg.Error.Message), set |-> FALSE,
          out |-> ZeroResponse]
    ELSE [done |-> TRUE, err |-> ErrNil, set |-> FALSE, out |-> ZeroResponse]

\* the same with the error of json.Unmarshal(msg.Result, out) dropped
sendRequestStepIgnoringDecodeError(msg, id, hasOut) ==
    IF ~msg.Error.nil
    THEN [done |-> TRUE,
          err |-> IF msg.Error.Message = "Not initialized"
                  THEN errNotInitialized
                  ELSE ErrRemote(msg.Error.Message),
          set |-> FALSE, out |-> ZeroResponse]
    ELSE IF ~idMatches(msg.ID, id)
    THEN [done |-> FALSE, err |-> ErrNil, set |-> FALSE, out |-> ZeroResponse]
    ELSE IF ~hasOut
    THEN [done |-> TRUE, err |-> ErrNil, set |-> FALSE, out |-> ZeroResponse]
    ELSE [done |-> TRUE, err |-> ErrNil, set |-> UnmarshalResult(msg.Result).set,
          out |-> UnmarshalResult(msg.Result).v]

sendRequestStep(msg, id, hasOut) ==
    IF ~msg.Error.nil
    THEN [done |-> TRUE,
          err |-> IF msg.Error.Message = "Not initialized"
                  THEN errNotInitialized
                  ELSE ErrRemote(msg.Error.Message),
          set |-> FALSE, out |-> ZeroResponse]
    ELSE IF ~idMatches(msg.ID, id)
    THEN [done |-> FALSE, err |-> ErrNil, set |-> FALSE, out |-> ZeroResponse]
    ELSE IF ~hasOut
    THEN [done |-> TRUE, err |-> ErrNil, set |-> FALSE, out |-> ZeroResponse]
    ELSE IF UnmarshalResult(msg.Result).err
    THEN [done |-> TRUE, err |-> ErrParse, set |-> FALSE, out |-> ZeroResponse]
    ELSE [done |-> TRUE, err |-> ErrNil, set |-> UnmarshalResult(msg.Result).set,
          out |-> UnmarshalResult(msg.Result).v]

\* the line a thread is writing
PayloadOf(t) ==
    IF pc[t] \in {"sr_write", "sr_write2"}
    THEN Request(frame[t].id, frame[t].method, frame[t].params)
    ELSE Notification(frame[t].method, frame[t].params)

\* c.mu.Lock() and the first part of c.stdin.Write(append(payload, '\n'))
WriteBegin(t, to) ==
    /\ muLockable
    /\ mu' = t
    /\ IF stdinBroken
       THEN wErr' = [wErr EXCEPT ![t] = TRUE] /\ UNCHANGED stdinBuf
       ELSE stdinBuf' = Append(stdinBuf, Chunk(PayloadOf(t), 1)) /\ UNCHANGED wErr
    /\ pc' = [pc EXCEPT ![t] = to]
    /\ UNCHANGED <<stdinClosed, stdoutClosed>>

\* the rest of the Write and c.mu.Unlock(); failed' tells whether Write erred
WriteFailed(t) == wErr[t] \/ stdinBroken
\* an end of the Write that returns on its error before c.mu.Unlock()
WriteEndKeepLockOnError(t) ==
    /\ mu' = IF WriteFailed(t) THEN t ELSE "free"
    /\ stdinBuf' = IF WriteFailed(t) THEN stdinBuf
                   ELSE Append(stdinBuf, Chunk(PayloadOf(t), 2))
    /\ wErr' = [wErr EXCEPT ![t] = FALSE]
    /\ UNCHANGED <<stdinClosed, stdoutClosed>>

WriteEnd(t) ==
    /\ mu' = "free"
    /\ stdinBuf' = IF WriteFailed(t) THEN stdinBuf
                   ELSE Append(stdinBuf, Chunk(PayloadOf(t), 2))
    /\ wErr' = [wErr EXCEPT ![t] = FALSE]
    /\ UNCHANGED <<stdinClosed, stdoutClosed>>

\* ------------------------------------------------------------- sendRequest
\* a sendRequest that looks at ctx first and returns ctx.Err() without writing
SendRequestLockCheckingToken(t) ==
    /\ pc[t] = "sr_write"
    /\ IF ctxDone(frame[t].ctx)
       THEN /\ ret' = [ret EXCEPT ![t] = ErrDeadline]
            /\ pc' = [pc EXCEPT ![t] = frame[t].cont]
            /\ UNCHANGED <<pipeVars, wErr>>
       ELSE /\ WriteBegin(t, "sr_write2")
            /\ UNCHANGED ret
    /\ UNCHANGED <<studyVars, now, ctxDeadline, frame, outVal, lastMsg, nRecv,
                   childVars, readerVars, fetchVars>>

\* c.mu.Lock() and the Write of sendRequest begun
SendRequestLock(t) ==
    /\ pc[t] = "sr_write"
    /\ WriteBegin(t, "sr_write2")
    /\ UNCHANGED <<studyVars, now, ctxDeadline, frame, ret, outVal, lastMsg, nRecv,
                   childVars, readerVars, fetchVars>>

\* a sendRequest that goes on to wait although its Write failed
SendRequestUnlockIgnoringError(t) ==
    /\ pc[t] = "sr_write2"
    /\ WriteEnd(t)
    /\ pc' = [pc EXCEPT ![t] = "sr_wait"]
    /\ UNCHANGED <<studyVars, now, ctxDeadline, frame, ret, outVal, lastMsg, nRecv,
                   childVars, readerVars, fetchVars>>

SendRequestUnlock(t) ==
    /\ pc[t] = "sr_write2"
    /\ WriteEnd(t)
    /\ IF WriteFailed(t)
       THEN /\ ret' = [ret EXCEPT ![t] = ErrWrite]
            /\ pc' = [pc EXCEPT ![t] = frame[t].cont]
       ELSE /\ pc' = [pc EXCEPT ![t] = "sr_wait"]
            /\ UNCHANGED ret
    /\ UNCHANGED <<studyVars, now, ctxDeadline, frame, outVal, lastMsg, nRecv,
                   childVars, readerVars, fetchVars>>

\* the ctx.Done() case returning nil
SendRequestCancelNil(t) ==
    /\ pc[t] = "sr_wait"
    /\ now >= frame[t].ctx
    /\ ret' = [ret EXCEPT ![t] = ErrNil]
    /\ pc' = [pc EXCEPT ![t] = frame[t].cont]
    /\ UNCHANGED <<studyVars, now, ctxDeadline, frame, outVal, lastMsg, nRecv, wErr,
                   pipeVars, childVars, readerVars, fetchVars>>

\* case <-ctx.Done(): return ctx.Err()
SendRequestCancel(t) ==
    /\ pc[t] = "sr_wait"
    /\ ctxDone(frame[t].ctx)
    /\ ret' = [ret EXCEPT ![t] = ErrDeadline]
    /\ pc' = [pc EXCEPT ![t] = frame[t].cont]
    /\ UNCHANGED <<studyVars, now, ctxDeadline, frame, outVal, lastMsg, nRecv, wErr,
                   pipeVars, childVars, readerVars, fetchVars>>

\* a receive that puts a message it skips back at the end of c.ch
SendRequestRecvRequeue(t) ==
    /\ pc[t] = "sr_wait"
    /\ ch # <<>>
    /\ LET msg == Head(ch)
           r == sendRequestStep(msg, frame[t].id, frame[t].hasOut)
       IN  /\ ch' = IF r.done THEN Tail(ch) ELSE Append(Tail(ch), msg)
           /\ received' = Append(received, [by |-> t, msg |-> msg])
           /\ lastMsg' = [lastMsg EXCEPT ![t] = msg]
           /\ nRecv' = [nRecv EXCEPT ![t] = @ + 1]
           /\ pc' = [pc EXCEPT ![t] = IF r.done THEN frame[t].cont ELSE "sr_wait"]
           /\ ret' = [ret EXCEPT ![t] = IF r.done THEN r.err ELSE @]
           /\ outVal' = [outVal EXCEPT ![t] = IF r.set THEN r.out ELSE @]
    /\ UNCHANGED <<studyVars, now, ctxDeadline, frame, wErr, pipeVars, childVars,
                   rdPos, bufEnd, rpc, held, delivered, fetchVars>>

\* case msg := <-c.ch: ...
SendRequestRecv(t) ==
    /\ pc[t] = "sr_wait"
    /\ ch # <<>>
    /\ LET msg == Head(ch)
           r == sendRequestStep(msg, frame[t].id, frame[t].hasOut)
       IN  /\ ch' = Tail(ch)
           /\ received' = Append(received, [by |-> t, msg |-> msg])
           /\ lastMsg' = [lastMsg EXCEPT ![t] = msg]
           /\ nRecv' = [nRecv EXCEPT ![t] = @ + 1]
           /\ pc' = [pc EXCEPT ![t] = IF r.done THEN frame[t].cont ELSE "sr_wait"]
           /\ ret' = [ret EXCEPT ![t] = IF r.done THEN r.err ELSE @]
           /\ outVal' = [outVal EXCEPT ![t] = IF r.set THEN r.out ELSE @]
    /\ UNCHANGED <<studyVars, now, ctxDeadline, frame, wErr, pipeVars, childVars,
                   rdPos, bufEnd, rpc, held, delivered, fetchVars>>

\* -------------------------------------------------------- sendNotification
SendNotificationLock(t) ==
    /\ pc[t] = "sn_write"
    /\ WriteBegin(t, "sn_write2")
    /\ UNCHANGED <<studyVars, now, ctxDeadline, frame, ret, outVal, lastMsg, nRecv,
                   childVars, readerVars, fetchVars>>

\* a sendNotification that, its line written, takes the next message of c.ch
\* as its answer
SendNotificationUnlockAwaiting(t) ==
    /\ pc[t] = "sn_write2"
    /\ WriteEnd(t)
    /\ ch # <<>>
    /\ ch' = Tail(ch)
    /\ ret' = [ret EXCEPT ![t] = IF WriteFailed(t) THEN ErrWrite ELSE ErrNil]
    /\ pc' = [pc EXCEPT ![t] = frame[t].cont]
    /\ UNCHANGED <<studyVars, now, ctxDeadline, frame, outVal, lastMsg, nRecv,
                   childVars, rdPos, bufEnd, rpc, held, delivered, received,
                   fetchVars>>

SendNotificationUnlock(t) ==
    /\ pc[t] = "sn_write2"
    /\ WriteEnd(t)
    /\ ret' = [ret EXCEPT ![t] = IF WriteFailed(t) THEN ErrWrite ELSE ErrNil]
    /\ pc' = [pc EXCEPT ![t] = frame[t].cont]
    /\ UNCHANGED <<studyVars, now, ctxDeadline, frame, outVal, lastMsg, nRecv,
                   childVars, readerVars, fetchVars>>

\* ---------------------------------------------------------------- readLoop
\* a pass that ignores the error of json.Unmarshal and sends msg anyway
readLoopLineKeepAll(line) ==
    LET trimmed == bytesTrimSpace(line)
    IN  IF Len(trimmed) = 0 THEN [send |-> FALSE, msg |-> ZeroMsg]
        ELSE [send |-> TRUE, msg |-> UnmarshalLine(trimmed).msg]

\* what one pass of the loop does with the line ReadBytes returned
readLoopLine(line) ==
    LET trimmed == bytesTrimSpace(line)
    IN  IF Len(trimmed) = 0 THEN [send |-> FALSE, msg |-> ZeroMsg]
        ELSE IF UnmarshalLine(trimmed).err THEN [send |-> FALSE, msg |-> ZeroMsg]
        ELSE [send |-> TRUE, msg |-> UnmarshalLine(trimmed).msg]

\* a loop that, when ReadBytes fails, still decodes and sends what ReadBytes
\* returned with the error
ReadLoopEndDeliverTail ==
    /\ rpc = "read"
    /\ rdPos = bufEnd
    /\ stdoutClosed \/ (bufEnd = Len(outHist) /\ child # "running")
    /\ rpc' = IF readLoopLine(tail).send THEN "send" ELSE "stopped"
    /\ held' = IF readLoopLine(tail).send THEN readLoopLine(tail).msg ELSE held
    /\ UNCHANGED <<studyVars, now, ctxDeadline, threadVars, pipeVars, childVars,
                   rdPos, bufEnd, ch, delivered, received, fetchVars>>

\* line, err := c.reader.ReadBytes('\n'); if err != nil { return }: with no
\* whole line left in the buffer ReadBytes reads c.stdout; the Read fails on a
\* closed c.stdout and ends at EOF once the child is gone and all it wrote has
\* been read
ReadLoopEnd ==
    /\ rpc = "read"
    /\ rdPos = bufEnd
    /\ stdoutClosed \/ (bufEnd = Len(outHist) /\ child # "running")
    /\ rpc' = "stopped"
    /\ UNCHANGED <<studyVars, now, ctxDeadline, threadVars, pipeVars, childVars,
                   rdPos, bufEnd, held, ch, delivered, received, fetchVars>>

\* what a Read of c.stdout brings into the buffer when the buffer holds no whole
\* line: all the child has written so far
bufferFilled == IF rdPos < bufEnd THEN bufEnd ELSE Len(outHist)

\* a ReadBytes that reads c.stdout although it has been closed
ReadLoopLineIgnoringClose ==
    /\ rpc = "read"
    /\ rdPos < Len(outHist)
    /\ LET r == readLoopLine(Append(outHist[rdPos + 1], WS("\n")))
       IN  /\ rdPos' = rdPos + 1
           /\ bufEnd' = bufferFilled
           /\ rpc' = IF r.send THEN "send" ELSE "read"
           /\ held' = IF r.send THEN r.msg ELSE held
    /\ UNCHANGED <<studyVars, now, ctxDeadline, threadVars, pipeVars, childVars,
                   ch, delivered, received, fetchVars>>

\* ReadBytes returns a line: the next one of the buffer, or, the buffer holding
\* none, after a Read of the open c.stdout that brought at least one
ReadLoopLine ==
    /\ rpc = "read"
    /\ rdPos < bufEnd \/ (~stdoutClosed /\ rdPos < Len(outHist))
    /\ LET r == readLoopLine(Append(outHist[rdPos + 1], WS("\n")))
       IN  /\ rdPos' = rdPos + 1
           /\ bufEnd' = bufferFilled
           /\ rpc' = IF r.send THEN "send" ELSE "read"
           /\ held' = IF r.send THEN r.msg ELSE held
    /\ UNCHANGED <<studyVars, now, ctxDeadline, threadVars, pipeVars, childVars,
                   ch, delivered, received, fetchVars>>

\* a send that puts msg at the head of the queue
ReadLoopSendFront ==
    /\ rpc = "send"
    /\ Len(ch) < ChanCap
    /\ ch' = <<held>> \o ch
    /\ delivered' = Append(delivered, held)
    /\ rpc' = "read"
    /\ UNCHANGED <<studyVars, now, ctxDeadline, threadVars, pipeVars, childVars,
                   rdPos, bufEnd, held, received, fetchVars>>

\* a send that gives up when c.ch is full and goes on reading
ReadLoopSendOrDrop ==
    /\ rpc = "send"
    /\ ch' = IF Len(ch) < ChanCap THEN Append(ch, held) ELSE ch
    /\ delivered' = IF Len(ch) < ChanCap THEN Append(delivered, held) ELSE delivered
    /\ rpc' = "read"
    /\ UNCHANGED <<studyVars, now, ctxDeadline, threadVars, pipeVars, childVars,
                   rdPos, bufEnd, held, received, fetchVars>>

\* c.ch <- msg
ReadLoopSend ==
    /\ rpc = "send"
    /\ Len(ch) < ChanCap
    /\ ch' = Append(ch, held)
    /\ delivered' = Append(delivered, held)
    /\ rpc' = "read"
    /\ UNCHANGED <<studyVars, now, ctxDeadline, threadVars, pipeVars, childVars,
                   rdPos, bufEnd, held, received, fetchVars>>

\* ------------------------------------------------------------ environment
\* a second passes while an operation is running and a deadline it depends on
\* lies ahead (the program observes the clock through its deadlines only)
Tick(max) ==
    /\ now < max
    /\ \E t \in Threads :
          /\ pc[t] \notin {"start", "returned", "idle", "done"}
          /\ now < ctxDeadline \/ now < frame[t].ctx
    /\ now' = now + 1
    /\ UNCHANGED <<studyVars, ctxDeadline, threadVars, pipeVars, childVars, readerVars,
                   fetchVars>>

ChildEmit(line, max) ==
    /\ child = "running"
    /\ ~stdoutClosed
    /\ Len(outHist) < max
    /\ outHist' = Append(outHist, tail \o line)
    /\ tail' = <<>>
    /\ UNCHANGED <<studyVars, now, ctxDeadline, threadVars, pipeVars, child, termBy,
                   readerVars, fetchVars>>

\* the child writes text that does not end in a newline
ChildEmitPartial(text) ==
    /\ child = "running"
    /\ ~stdoutClosed
    /\ Len(tail) < MaxTail
    /\ tail' = tail \o text
    /\ UNCHANGED <<studyVars, now, ctxDeadline, threadVars, pipeVars, child, termBy,
                   outHist, readerVars, fetchVars>>

ChildExit ==
    /\ child = "running"
    /\ child' = "zombie"
    /\ termBy' = "self"
    /\ UNCHANGED <<studyVars, now, ctxDeadline, threadVars, pipeVars, outHist, tail, readerVars, fetchVars>>

\* exec.CommandContext: the command is killed once ctx is done
CommandContextKill ==
    /\ child = "running"
    /\ ctxDone(ctxDeadline)
    /\ child' = "zombie"
    /\ termBy' = "ctx"
    /\ UNCHANGED <<studyVars, now, ctxDeadline, threadVars, pipeVars, outHist, tail, readerVars, fetchVars>>

\* ------------------------------------------------------------------- Close
\* one step of Close and the error it returned (which Close drops)
Step(step, err) == [step |-> step, err |-> err]

\* a Close that returns when closing c.stdin fails
CloseStdinReturnOnError ==
    /\ pc["main"] = "close_stdin"
    /\ closeCount' = closeCount + 1
    /\ closeLog' = Append(closeLog, Step("stdin", stdinClosed))
    /\ stdinClosed' = TRUE
    /\ pc' = [pc EXCEPT !["main"] = IF stdinClosed THEN frame["main"].cont
                                     ELSE "close_stdout"]
    /\ UNCHANGED <<pureVars, now, ctxDeadline, frame, ret, outVal, lastMsg, nRecv, wErr,
                   mu, stdinBuf, stdoutClosed, childVars, readerVars,
                   initErr, clientRet, ctorErr, fetchErr, usage>>

\* _ = c.stdin.Close(): closing a file that is closed already is an error
CloseStdin ==
    /\ pc["main"] = "close_stdin"
    /\ closeCount' = closeCount + 1
    /\ closeLog' = Append(closeLog, Step("stdin", stdinClosed))
    /\ stdinClosed' = TRUE
    /\ pc' = [pc EXCEPT !["main"] = "close_stdout"]
    /\ UNCHANGED <<pureVars, now, ctxDeadline, frame, ret, outVal, lastMsg, nRecv, wErr,
                   mu, stdinBuf, stdoutClosed, childVars, readerVars,
                   initErr, clientRet, ctorErr, fetchErr, usage>>

\* _ = c.stdout.Close()
CloseStdout ==
    /\ pc["main"] = "close_stdout"
    /\ closeLog' = Append(closeLog, Step("stdout", stdoutClosed))
    /\ stdoutClosed' = TRUE
    /\ pc' = [pc EXCEPT !["main"] = "close_kill"]
    /\ UNCHANGED <<pureVars, now, ctxDeadline, frame, ret, outVal, lastMsg, nRecv, wErr,
                   mu, stdinBuf, stdinClosed, childVars, readerVars, fetchVars>>

\* _ = c.cmd.Process.Kill(): the signal is sent to a process that runs or that
\* has ended and was not waited on; after Wait it is os.ErrProcessDone
CloseKill ==
    /\ pc["main"] = "close_kill"
    /\ closeLog' = Append(closeLog, Step("kill", child = "reaped"))
    /\ child' = IF child = "running" THEN "zombie" ELSE child
    /\ termBy' = IF child = "running" THEN "close" ELSE termBy
    /\ pc' = [pc EXCEPT !["main"] = "close_wait"]
    /\ UNCHANGED <<pureVars, now, ctxDeadline, frame, ret, outVal, lastMsg, nRecv, wErr,
                   pipeVars, outHist, tail, readerVars, fetchVars>>

\* a Wait that returns only when it has reaped the process
CloseWaitForExit ==
    /\ pc["main"] = "close_wait"
    /\ child = "zombie"
    /\ closeLog' = Append(closeLog, Step("wait", FALSE))
    /\ child' = "reaped"
    /\ pc' = [pc EXCEPT !["main"] = frame["main"].cont]
    /\ UNCHANGED <<pureVars, now, ctxDeadline, frame, ret, outVal, lastMsg, nRecv, wErr,
                   pipeVars, termBy, outHist, tail, readerVars, fetchVars>>

\* _, _ = c.cmd.Process.Wait(): returns once the process has ended; on a
\* process that was waited on already it returns an error at once
CloseWait ==
    /\ pc["main"] = "close_wait"
    /\ child # "running"
    /\ closeLog' = Append(closeLog, Step("wait", child = "reaped"))
    /\ child' = IF child = "zombie" THEN "reaped" ELSE child
    /\ pc' = [pc EXCEPT !["main"] = frame["main"].cont]
    /\ UNCHANGED <<pureVars, now, ctxDeadline, frame, ret, outVal, lastMsg, nRecv, wErr,
                   pipeVars, termBy, outHist, tail, readerVars, fetchVars>>

\* ------------------------------------------- fetchRateLimitsFromAppServer
\* ctx, cancel := context.WithTimeout(context.Background(), appServerRequestTimeout)
Fetch ==
    /\ pc["main"] = "start"
    /\ ctxDeadline' = now + appServerRequestTimeout
    /\ pc' = [pc EXCEPT !["main"] = "new_client"]
    /\ UNCHANGED <<studyVars, now, frame, ret, outVal, lastMsg, nRecv, wErr, pipeVars,
                   childVars, readerVars, fetchVars>>

\* the fresh frame of a send operation
CallSend(t, f, label) ==
    /\ frame' = [frame EXCEPT ![t] = f]
    /\ pc' = [pc EXCEPT ![t] = label]
    /\ ret' = [ret EXCEPT ![t] = ErrNil]
    /\ lastMsg' = [lastMsg EXCEPT ![t] = ZeroMsg]
    /\ nRecv' = [nRecv EXCEPT ![t] = 0]

\* client.Close() is called from frame "main"; cont is where it returns to
CallClose(cont) ==
    /\ frame' = [frame EXCEPT !["main"].cont = cont]
    /\ pc' = [pc EXCEPT !["main"] = "close_stdin"]

\* newAppServerClient up to go client.readLoop(): the pipes and cmd.Start()
\* (which fails at once when ctx is done already)
NewAppServerClient(started) ==
    /\ pc["main"] = "new_client"
    /\ IF started /\ ~ctxDone(ctxDeadline)
       THEN /\ child' = "running"
            /\ rpc' = "read"
            /\ pc' = [pc EXCEPT !["main"] = "initialize"]
            /\ UNCHANGED <<clientRet, ctorErr>>
       ELSE /\ clientRet' = "nil"
            /\ ctorErr' = ErrStart
            /\ pc' = [pc EXCEPT !["main"] = "new_done"]
            /\ UNCHANGED <<child, rpc>>
    /\ UNCHANGED <<studyVars, now, ctxDeadline, frame, ret, outVal, lastMsg, nRecv, wErr,
                   pipeVars, termBy, outHist, tail, rdPos, bufEnd, held, ch, delivered,
                   received, closeCount, initErr, fetchErr, usage>>

\* an initialize that leaves its request to another goroutine and goes on
InitializeInBackground ==
    /\ pc["main"] = "initialize"
    /\ frame' = [frame EXCEPT !["A"] =
                     Frame(1, "initialize", "clientInfo", FALSE,
                           Min(ctxDeadline, now + appServerInitTimeout), "done")]
    /\ pc' = [pc EXCEPT !["A"] = "sr_write", !["main"] = "init_sent"]
    /\ UNCHANGED <<studyVars, now, ctxDeadline, ret, lastMsg, nRecv, outVal, wErr,
                   pipeVars, childVars, readerVars, fetchVars>>

\* initialize: initCtx and c.sendRequest(initCtx, 1, "initialize", params, nil)
Initialize ==
    /\ pc["main"] = "initialize"
    /\ CallSend("main",
                Frame(1, "initialize", "clientInfo", FALSE,
                      Min(ctxDeadline, now + appServerInitTimeout), "init_sent"),
                "sr_write")
    /\ UNCHANGED <<studyVars, now, ctxDeadline, outVal, wErr, pipeVars, childVars,
                   readerVars, fetchVars>>

\* initialize that sends the notification whatever sendRequest returned
InitializeSentAlways ==
    /\ pc["main"] = "init_sent"
    /\ CallSend("main", Frame(0, "initialized", "null", FALSE, 0, "init_noted"),
                "sn_write")
    /\ UNCHANGED initErr
    /\ UNCHANGED <<studyVars, now, ctxDeadline, outVal, wErr, pipeVars, childVars, readerVars,
                   closeCount, clientRet, ctorErr, fetchErr, usage>>

\* initialize after sendRequest returned: return err, or
\* return c.sendNotification("initialized", nil)
InitializeSent ==
    /\ pc["main"] = "init_sent"
    /\ IF ret["main"] # ErrNil
       THEN /\ initErr' = ret["main"]
            /\ pc' = [pc EXCEPT !["main"] = "init_done"]
            /\ UNCHANGED <<frame, ret, lastMsg, nRecv>>
       ELSE /\ CallSend("main", Frame(0, "initialized", "null", FALSE, 0, "init_noted"),
                        "sn_write")
            /\ UNCHANGED initErr
    /\ UNCHANGED <<studyVars, now, ctxDeadline, outVal, wErr, pipeVars, childVars, readerVars,
                   closeCount, clientRet, ctorErr, fetchErr, usage>>

\* an initialize that drops what sendNotification returned
InitializeNotedIgnoringError ==
    /\ pc["main"] = "init_noted"
    /\ initErr' = ErrNil
    /\ pc' = [pc EXCEPT !["main"] = "init_done"]
    /\ UNCHANGED <<studyVars, now, ctxDeadline, frame, ret, outVal, lastMsg, nRecv, wErr,
                   pipeVars, childVars, readerVars,
                   closeCount, clientRet, ctorErr, fetchErr, usage>>

\* return c.sendNotification("initialized", nil)
InitializeNoted ==
    /\ pc["main"] = "init_noted"
    /\ initErr' = ret["main"]
    /\ pc' = [pc EXCEPT !["main"] = "init_done"]
    /\ UNCHANGED <<studyVars, now, ctxDeadline, frame, ret, outVal, lastMsg, nRecv, wErr,
                   pipeVars, childVars, readerVars,
                   closeCount, clientRet, ctorErr, fetchErr, usage>>

\* newAppServerClient that returns the error without client.Close()
NewAppServerClientInitializedNoClose ==
    /\ pc["main"] = "init_done"
    /\ IF initErr # ErrNil
       THEN /\ pc' = [pc EXCEPT !["main"] = "new_failed"]
            /\ UNCHANGED <<clientRet, ctorErr>>
       ELSE /\ clientRet' = "client"
            /\ ctorErr' = ErrNil
            /\ pc' = [pc EXCEPT !["main"] = "new_done"]
    /\ UNCHANGED <<studyVars, now, ctxDeadline, frame, ret, outVal, lastMsg, nRecv, wErr,
                   pipeVars, childVars, readerVars,
                   closeCount, initErr, fetchErr, usage>>

\* newAppServerClient after client.initialize(ctx) returned
NewAppServerClientInitialized ==
    /\ pc["main"] = "init_done"
    /\ IF initErr # ErrNil
       THEN /\ CallClose("new_failed")
            /\ UNCHANGED <<clientRet, ctorErr>>
       ELSE /\ clientRet' = "client"
            /\ ctorErr' = ErrNil
            /\ pc' = [pc EXCEPT !["main"] = "new_done"]
            /\ UNCHANGED frame
    /\ UNCHANGED <<studyVars, now, ctxDeadline, ret, outVal, lastMsg, nRecv, wErr,
                   pipeVars, childVars, readerVars,
                   closeCount, initErr, fetchErr, usage>>

\* return nil, err after client.Close()
NewAppServerClientFailed ==
    /\ pc["main"] = "new_failed"
    /\ clientRet' = "nil"
    /\ ctorErr' = initErr
    /\ pc' = [pc EXCEPT !["main"] = "new_done"]
    /\ UNCHANGED <<studyVars, now, ctxDeadline, frame, ret, outVal, lastMsg, nRecv, wErr,
                   pipeVars, childVars, readerVars,
                   closeCount, initErr, fetchErr, usage>>

\* fetchRateLimitsFromAppServer after newAppServerClient returned: return err,
\* or defer client.Close(), reqCtx and client.sendRequest(reqCtx, 2, ...)
FetchRequest ==
    /\ pc["main"] = "new_done"
    /\ IF ctorErr # ErrNil
       THEN /\ fetchErr' = ctorErr
            /\ pc' = [pc EXCEPT !["main"] = "returned"]
            /\ UNCHANGED <<frame, ret, lastMsg, nRecv, outVal>>
       ELSE /\ CallSend("main",
                        Frame(2, "account/rateLimits/read", "null", TRUE,
                              Min(ctxDeadline, now + appServerRequestTimeout),
                              "req_done"),
                        "sr_write")
            /\ outVal' = [outVal EXCEPT !["main"] = ZeroResponse]
            /\ UNCHANGED fetchErr
    /\ UNCHANGED <<studyVars, now, ctxDeadline, wErr, pipeVars, childVars, readerVars,
                   closeCount, initErr, clientRet, ctorErr, usage>>

\* a version that closes the client only after a successful request
FetchResponseCloseOnSuccess ==
    /\ pc["main"] = "req_done"
    /\ fetchErr' = ret["main"]
    /\ usage' = IF ret["main"] # ErrNil THEN usage
                ELSE [RateSource |-> "codex app-server",
                      planSet |-> outVal["main"].set /\ outVal["main"].plan # 0,
                      plan |-> outVal["main"].plan]
    /\ IF ret["main"] # ErrNil
       THEN pc' = [pc EXCEPT !["main"] = "returned"] /\ UNCHANGED frame
       ELSE CallClose("returned")
    /\ UNCHANGED <<studyVars, now, ctxDeadline, ret, outVal, lastMsg, nRecv, wErr,
                   pipeVars, childVars, readerVars,
                   closeCount, initErr, clientRet, ctorErr>>

\* after sendRequest: return err, or fill usage and return nil; either way the
\* deferred client.Close() runs
FetchResponse ==
    /\ pc["main"] = "req_done"
    /\ fetchErr' = ret["main"]
    /\ usage' = IF ret["main"] # ErrNil THEN usage
                ELSE [RateSource |-> "codex app-server",
                      planSet |-> outVal["main"].set /\ outVal["main"].plan # 0,
                      plan |-> outVal["main"].plan]
    /\ CallClose("returned")
    /\ UNCHANGED <<studyVars, now, ctxDeadline, ret, outVal, lastMsg, nRecv, wErr,
                   pipeVars, childVars, readerVars,
                   closeCount, initErr, clientRet, ctorErr>>

\* ---------------------------------------------------------- specifications
InitCommon ==
    /\ now = 0
    /\ ctxDeadline = 0
    /\ ret = [t \in Threads |-> ErrNil]
    /\ outVal = [t \in Threads |-> ZeroResponse]
    /\ lastMsg = [t \in Threads |-> ZeroMsg]
    /\ nRecv = [t \in Threads |-> 0]
    /\ wErr = [t \in Threads |-> FALSE]
    /\ mu = "free"
    /\ stdinBuf = <<>>
    /\ stdinClosed = FALSE
    /\ stdoutClosed = FALSE
    /\ termBy = ""
    /\ outHist = <<>>
    /\ tail = <<>>
    /\ rdPos = 0
    /\ bufEnd = 0
    /\ held = ZeroMsg
    /\ ch = <<>>
    /\ delivered = <<>>
    /\ received = <<>>
    /\ closeCount = 0
    /\ closeLog = <<>>
    /\ initErr = ErrNil
    /\ ctorErr = ErrNil
    /\ fetchErr = ErrNil
    /\ usage = ZeroUsage

\* no function is under study
NoArg == [fn |-> ""]
NoRes == [set |-> FALSE, v |-> ""]

\* no client: every variable of the app-server client at rest
NoClient ==
    /\ InitCommon
    /\ pc = [t \in Threads |-> "idle"]
    /\ frame = [t \in Threads |-> NoFrame]
    /\ child = "none"
    /\ rpc = "off"
    /\ clientRet = "nil"

\* the program: one call of fetchRateLimitsFromAppServer
Init ==
    /\ InitCommon
    /\ arg = NoArg /\ res = NoRes
    /\ pc = [t \in Threads |-> IF t = "main" THEN "start" ELSE "idle"]
    /\ frame = [t \in Threads |-> NoFrame]
    /\ child = "none"
    /\ rpc = "off"
    /\ clientRet = "nil"

Next ==
    \/ Tick(MaxTime)
    \/ \E line \in LineSet : ChildEmit(line, MaxLines)
    \/ ChildExit
    \/ CommandContextKill
    \/ ReadLoopEnd
    \/ ReadLoopLine
    \/ ReadLoopSend
    \/ Fetch
    \/ \E started \in BOOLEAN : NewAppServerClient(started)
    \/ Initialize
    \/ InitializeSent
    \/ InitializeNoted
    \/ NewAppServerClientInitialized
    \/ NewAppServerClientFailed
    \/ FetchRequest
    \/ FetchResponse
    \/ \E t \in Threads : SendRequestLock(t)
    \/ \E t \in Threads : SendRequestUnlock(t)
    \/ \E t \in Threads : SendRequestCancel(t)
    \/ \E t \in Threads : SendRequestRecv(t)
    \/ \E t \in Threads : SendNotificationLock(t)
    \/ \E t \in Threads : SendNotificationUnlock(t)
    \/ CloseStdin
    \/ CloseStdout
    \/ CloseKill
    \/ CloseWait

Spec == Init /\ [][Next]_vars

\* One sendRequest on a client that is ready: thread A makes one call of CallSet.
InitCall ==
    /\ InitCommon
    /\ arg = NoArg /\ res = NoRes
    /\ \E c \in CallSet :
          frame = [t \in Threads |->
                      IF t = "A"
                      THEN Frame(c.id, "method", "null", c.hasOut, c.ctx, "done")
                      ELSE NoFrame]
    /\ pc = [t \in Threads |-> IF t = "A" THEN "sr_write" ELSE "idle"]
    /\ child = "running"
    /\ rpc = "read"
    /\ clientRet = "client"

NextCall ==
    \/ Tick(MaxCallTime)
    \/ \E line \in CallLineSet : ChildEmit(line, MaxCallLines)
    \/ ChildExit
    \/ ReadLoopEnd
    \/ ReadLoopLine
    \/ ReadLoopSend
    \/ \E t \in Threads : SendRequestLock(t)
    \/ \E t \in Threads : SendRequestUnlock(t)
    \/ \E t \in Threads : SendRequestCancel(t)
    \/ \E t \in Threads : SendRequestRecv(t)

SpecCall == InitCall /\ [][NextCall]_vars

\* One sendRequest to a child that answers nothing: it writes blank lines, text
\* that is no JSON, or a notification, or it ends. The scheduling is what Go
\* guarantees: time passes, and the goroutine in sendRequest takes its next step
\* whenever it can (a select with a ready case proceeds with a ready case).
NextSilent ==
    \/ Tick(MaxCallTime)
    \/ \E line \in SilentLineSet : ChildEmit(line, MaxCallLines)
    \/ ChildExit
    \/ ReadLoopEnd
    \/ ReadLoopLine
    \/ ReadLoopSend
    \/ \E t \in Threads : SendRequestLock(t)
    \/ \E t \in Threads : SendRequestUnlock(t)
    \/ \E t \in Threads : SendRequestCancel(t)
    \/ \E t \in Threads : SendRequestRecv(t)

SpecSilent ==
    /\ InitCall
    /\ [][NextSilent]_vars
    /\ WF_vars(Tick(MaxCallTime))
    /\ WF_vars(SendRequestLock("A"))
    /\ WF_vars(SendRequestUnlock("A"))
    /\ WF_vars(SendRequestCancel("A") \/ SendRequestRecv("A"))

\* One sendRequest on a ready client whose c.ch still holds one message from the
\* time of the handshake: thread A makes the call with id 2.
InitStale ==
    /\ now = 0
    /\ ctxDeadline = 0
    /\ ret = [t \in Threads |-> ErrNil]
    /\ outVal = [t \in Threads |-> ZeroResponse]
    /\ lastMsg = [t \in Threads |-> ZeroMsg]
    /\ nRecv = [t \in Threads |-> 0]
    /\ wErr = [t \in Threads |-> FALSE]
    /\ mu = "free"
    /\ stdinBuf = <<>>
    /\ stdinClosed = FALSE
    /\ stdoutClosed = FALSE
    /\ termBy = ""
    /\ \E line \in StaleLineSet :
          /\ outHist = <<line>>
          /\ tail = <<>>
          /\ held = UnmarshalLine(bytesTrimSpace(line)).msg
          /\ ch = <<held>>
          /\ delivered = <<held>>
    /\ rdPos = 1
    /\ bufEnd = 1
    /\ received = <<>>
    /\ closeCount = 0
    /\ closeLog = <<>>
    /\ initErr = ErrNil
    /\ ctorErr = ErrNil
    /\ fetchErr = ErrNil
    /\ usage = ZeroUsage
    /\ arg = NoArg /\ res = NoRes
    /\ \E hasOut \in BOOLEAN :
          frame = [t \in Threads |->
                      IF t = "A" THEN Frame(2, "method", "null", hasOut, 1, "done")
                      ELSE NoFrame]
    /\ pc = [t \in Threads |-> IF t = "A" THEN "sr_write" ELSE "idle"]
    /\ child = "running"
    /\ rpc = "read"
    /\ clientRet = "client"

NextStale ==
    \/ Tick(MaxCallTime)
    \/ \E line \in ReplyLineSet : ChildEmit(line, MaxCallLines)
    \/ ChildExit
    \/ ReadLoopEnd
    \/ ReadLoopLine
    \/ ReadLoopSend
    \/ SendRequestLock("A")
    \/ SendRequestUnlock("A")
    \/ SendRequestCancel("A")
    \/ SendRequestRecv("A")

SpecStale == InitStale /\ [][NextStale]_vars

\* A child that writes more messages than c.ch holds while thread A waits for
\* the answer to request 2: the k-th line answers some request 100 + k.
QueueLine(k) == <<Resp(JInt(100 + k), JObj(0, TRUE))>>

InitQueue ==
    /\ InitCommon
    /\ arg = NoArg /\ res = NoRes
    /\ frame = [t \in Threads |->
                   IF t = "A" THEN Frame(2, "method", "null", TRUE, 1, "done")
                   ELSE NoFrame]
    /\ pc = [t \in Threads |-> IF t = "A" THEN "sr_write" ELSE "idle"]
    /\ child = "running"
    /\ rpc = "read"
    /\ clientRet = "client"

NextQueue ==
    \/ Tick(MaxCallTime)
    \/ ChildEmit(QueueLine(Len(outHist) + 1), MaxQueueLines)
    \/ ReadLoopLine
    \/ ReadLoopSend
    \/ SendRequestLock("A")
    \/ SendRequestUnlock("A")
    \/ SendRequestCancel("A")
    \/ SendRequestRecv("A")

SpecQueue == InitQueue /\ [][NextQueue]_vars

\* ------------------------------------------------- FormatRelativeTimeFrom

\* FormatRelativeTimeFrom(resetAt, now), by whether resetAt.IsZero() and by
\* d = resetAt.Sub(now) in whole seconds; int(duration.Hours()) and the like
\* cut the fraction off
FormatRelativeTimeFrom(isZero, d) ==
    LET totalHours == d \div 3600
        days == totalHours \div 24
        hours == totalHours % 24
        minutes == (d \div 60) % 60
        seconds == d
    IN  IF isZero THEN ""
        ELSE IF d <= 0 THEN "resets now"
        ELSE IF days > 0
        THEN IF hours > 0 /\ minutes > 0
             THEN "resets in " \o SprintfD(days) \o "d " \o SprintfD(hours) \o "h "
                      \o SprintfD(minutes) \o "m"
             ELSE IF hours > 0
             THEN "resets in " \o SprintfD(days) \o "d " \o SprintfD(hours) \o "h"
             ELSE IF minutes > 0
             THEN "resets in " \o SprintfD(days) \o "d " \o SprintfD(minutes) \o "m"
             ELSE "resets in " \o SprintfD(days) \o "d"
        ELSE IF hours > 0 /\ minutes > 0
        THEN "resets in " \o SprintfD(hours) \o "h " \o SprintfD(minutes) \o "m"
        ELSE IF hours > 0 THEN "resets in " \o SprintfD(hours) \o "h"
        ELSE IF minutes > 0 THEN "resets in " \o SprintfD(minutes) \o "m"
        ELSE "resets in " \o SprintfD(seconds) \o "s"

\* the reset times tried: the zero time, times in the past, now, and times ahead
FormatArgs ==
    {[fn |-> "FormatRelativeTimeFrom", isZero |-> TRUE, d |-> 0]}
    \cup {[fn |-> "FormatRelativeTimeFrom", isZero |-> FALSE, d |-> d] : d \in {-3600, -1}}
    \cup {[fn |-> "FormatRelativeTimeFrom", isZero |-> FALSE,
           d |-> h * 3600 + m * 60 + sec] :
              h \in 0..MaxFormatHours, m \in {0, 15, 30, 59}, sec \in {0, 30}}

InitFormat ==
    /\ NoClient
    /\ arg \in FormatArgs
    /\ res = NoRes

\* the call FormatRelativeTimeFrom(resetAt, now)
FormatRelativeTime ==
    /\ arg.fn = "FormatRelativeTimeFrom"
    /\ ~res.set
    /\ res' = [set |-> TRUE, v |-> FormatRelativeTimeFrom(arg.isZero, arg.d)]
    /\ UNCHANGED <<clientVars, closeLog, arg>>

NextFormat == FormatRelativeTime

SpecFormat == InitFormat /\ [][NextFormat]_vars

\* ---------------------------------------------------------------- idMatches
\* raw identifiers of an inbound message: none, null, integers, numbers with
\* a fraction, strings, booleans, an array and an object
IdTexts == {"", "0", "1", "2", "3", "4", "01", " 1", "1 ", "-1", "1.0", "null", "one"}
RawIds ==
    {JAbsent, JNull}
    \cup {JInt(n) : n \in -1..(MaxId + 1)}
    \cup {JFloat(n) : n \in 0..2}
    \cup {JStr(t) : t \in IdTexts}
    \cup {J("bool", b, "", FALSE) : b \in 0..1}
    \cup {J("array", 0, "", FALSE), JObj(0, FALSE)}

IdArgs == {[fn |-> "idMatches", raw |-> raw, id |-> id] : raw \in RawIds, id \in 0..MaxId}

InitIdMatches ==
    /\ NoClient
    /\ arg \in IdArgs
    /\ res = NoRes

\* the call idMatches(msg.ID, id)
IdMatches ==
    /\ arg.fn = "idMatches"
    /\ ~res.set
    /\ res' = [set |-> TRUE, v |-> idMatches(arg.raw, arg.id)]
    /\ UNCHANGED <<clientVars, closeLog, arg>>

NextIdMatches == IdMatches

SpecIdMatches == InitIdMatches /\ [][NextIdMatches]_vars

\* ------------------------------------------------------ fetchUsageFromPath
\* Text the functions below cut and compare is a sequence of one-character
\* strings; Str gives the Go string a sequence of characters spells.
RECURSIVE Str(_)
Str(cs) == IF cs = <<>> THEN "" ELSE cs[1] \o Str(Tail(cs))

UpperChars == <<"A", "B", "E", "F", "G", "I", "K", "L", "M", "N", "O", "P", "R", "S",
                "T", "U", "Y">>
LowerChars == <<"a", "b", "e", "f", "g", "i", "k", "l", "m", "n", "o", "p", "r", "s",
                "t", "u", "y">>

\* strings.ToLower, character by character
ToLower(cs) ==
    [i \in 1..Len(cs) |->
        IF \E j \in 1..Len(UpperChars) : UpperChars[j] = cs[i]
        THEN LowerChars[CHOOSE j \in 1..Len(UpperChars) : UpperChars[j] = cs[i]]
        ELSE cs[i]]

unicodeIsSpace(c) == c \in {" ", "\n", "\r", "\t"}

RECURSIVE TrimLeft(_)
TrimLeft(cs) ==
    IF cs # <<>> /\ unicodeIsSpace(cs[1]) THEN TrimLeft(Tail(cs)) ELSE cs

RECURSIVE TrimRight(_)
TrimRight(cs) ==
    IF cs # <<>> /\ unicodeIsSpace(cs[Len(cs)])
    THEN TrimRight(SubSeq(cs, 1, Len(cs) - 1)) ELSE cs

\* strings.TrimSpace
TrimSpace(cs) == TrimRight(TrimLeft(cs))

PlanUnknown == "unknown"
PlanAPIKey == "api_key"
KnownPlans == {"free", "go", "plus", "pro", "team", "business", "enterprise", "edu",
               "api_key"}

normalizePlan(plan) ==
    LET name == Str(ToLower(TrimSpace(plan)))
    IN  IF name \in KnownPlans THEN name ELSE PlanUnknown

\* A token is kept by what planFromToken looks at: whether it is the empty
\* string, the number of parts strings.Split(token, ".") gives, whether the
\* second part is base64url text, whether that decodes to JSON that fits
\* authClaims, and the chatgpt_plan_type found there.
Token(empty, parts, b64, json, claim) ==
    [empty |-> empty, parts |-> parts, b64 |-> b64, json |-> json, claim |-> claim]
EmptyToken == Token(TRUE, 1, TRUE, FALSE, <<>>)
Jwt(claim) == Token(FALSE, 3, TRUE, TRUE, claim)

planFromToken(token) ==
    IF token.parts < 2 THEN [plan |-> PlanUnknown, err |-> TRUE]
    ELSE IF ~token.b64 THEN [plan |-> PlanUnknown, err |-> TRUE]
    ELSE IF ~token.json THEN [plan |-> PlanUnknown, err |-> TRUE]
    ELSE [plan |-> normalizePlan(token.claim), err |-> FALSE]

\* a version that asks the access token first
planFromTokensAccessFirst(idToken, accessToken) ==
    IF ~accessToken.empty /\ ~planFromToken(accessToken).err
    THEN planFromToken(accessToken).plan
    ELSE IF ~idToken.empty /\ ~planFromToken(idToken).err
    THEN planFromToken(idToken).plan
    ELSE PlanUnknown

planFromTokens(idToken, accessToken) ==
    IF ~idToken.empty /\ ~planFromToken(idToken).err
    THEN planFromToken(idToken).plan
    ELSE IF ~accessToken.empty /\ ~planFromToken(accessToken).err
    THEN planFromToken(accessToken).plan
    ELSE PlanUnknown

\* the authFile a readable auth.json decodes to; OpenAIAPIKey is a pointer
Nil == [nil |-> TRUE, v |-> <<>>]
Ptr(v) == [nil |-> FALSE, v |-> v]
AuthFile(mode, key, idToken, accessToken) ==
    [AuthMode |-> mode, OpenAIAPIKey |-> key,
     Tokens |-> [IDToken |-> idToken, AccessToken |-> accessToken]]
ZeroAuthFile == AuthFile("", Nil, EmptyToken, EmptyToken)

\* *rateLimitWindow of the response
RateLimitWindow(usedPercent, windowDurationMins, resetsAt) ==
    Ptr([UsedPercent |-> usedPercent, WindowDurationMins |-> windowDurationMins,
         ResetsAt |-> resetsAt])

\* windowFromRateLimit(limit): Utilization is UsedPercent / 100.0, kept as the
\* number of hundredths; ResetAt is the zero time unless ResetsAt > 0
windowFromRateLimit(limit) ==
    IF limit.nil THEN Nil
    ELSE Ptr([WindowDurationMins |-> limit.v.WindowDurationMins,
              Utilization |-> [hundredths |-> limit.v.UsedPercent],
              ResetAt |-> IF limit.v.ResetsAt > 0
                          THEN [isZero |-> FALSE, unix |-> limit.v.ResetsAt]
                          ELSE [isZero |-> TRUE, unix |-> 0]])

\* what the exchange with the app-server came to: an error, or the
\* rateLimits.planType, primary and secondary of the response
FetchFailed == [err |-> TRUE, PlanType |-> Nil, Primary |-> Nil, Secondary |-> Nil]
FetchedWindows(planType, primary, secondary) ==
    [err |-> FALSE, PlanType |-> planType, Primary |-> primary, Secondary |-> secondary]
Fetched(planType) == FetchedWindows(planType, Nil, Nil)

\* fetchRateLimitsFromAppServer(usage), from the outcome of the exchange on
MkUsage(plan, planSource, authMode) ==
    [Plan |-> plan, PlanSource |-> planSource, AuthMode |-> authMode,
     Primary |-> Nil, Secondary |-> Nil, RateSource |-> ""]

NoUsage == MkUsage("", "", "")

fetchRateLimitsFromAppServer(u, fetch) ==
    IF fetch.err THEN [err |-> TRUE, usage |-> u]
    ELSE [err |-> FALSE,
          usage |-> [u EXCEPT !.RateSource = "codex app-server",
                              !.Plan = IF fetch.PlanType.nil THEN @
                                       ELSE normalizePlan(fetch.PlanType.v),
                              !.Primary = IF fetch.Primary.nil THEN @
                                          ELSE windowFromRateLimit(fetch.Primary),
                              !.Secondary = IF fetch.Secondary.nil THEN @
                                            ELSE windowFromRateLimit(fetch.Secondary)]]

\* callers that hand the error of populateRateLimits on
populateRateLimitsReturningError(u, fetch) ==
    LET r == fetchRateLimitsFromAppServer(u, fetch)
    IN  IF r.err THEN [err |-> "fetch", usage |-> NoUsage]
        ELSE [err |-> "nil", usage |-> r.usage]

\* populateRateLimits(usage) and the error handling both callers share
populateRateLimits(u, fetch) ==
    LET r == fetchRateLimitsFromAppServer(u, fetch)
    IN  IF r.err THEN [err |-> "nil", usage |-> [r.usage EXCEPT !.RateSource = "unavailable"]]
        ELSE [err |-> "nil", usage |-> r.usage]

\* usageFromAPIKey that compares the key without strings.TrimSpace
usageFromAPIKeyUntrimmed(envAPIKey, fetch) ==
    IF envAPIKey = <<>> THEN [err |-> "ErrAuthNotFound", usage |-> NoUsage]
    ELSE populateRateLimits(MkUsage(PlanAPIKey, "api key", "api_key"), fetch)

usageFromAPIKey(envAPIKey, fetch) ==
    IF TrimSpace(envAPIKey) = <<>> THEN [err |-> "ErrAuthNotFound", usage |-> NoUsage]
    ELSE populateRateLimits(MkUsage(PlanAPIKey, "api key", "api_key"), fetch)

\* a version that takes the key from the environment only
fetchUsageFromPathEnvOnly(path, envAPIKey, auth, fetch) ==
    IF path = "" THEN usageFromAPIKey(envAPIKey, fetch)
    ELSE IF path = "unreadable" THEN usageFromAPIKey(envAPIKey, fetch)
    ELSE IF path = "badjson" THEN [err |-> "parse", usage |-> NoUsage]
    ELSE LET apiKey == TrimSpace(envAPIKey)
             isKey == auth.AuthMode = "api_key" \/ apiKey # <<>>
             plan == IF isKey THEN PlanAPIKey
                     ELSE planFromTokens(auth.Tokens.IDToken, auth.Tokens.AccessToken)
             planSource == IF isKey THEN "api key" ELSE "codex auth"
         IN  populateRateLimits(MkUsage(plan, planSource, auth.AuthMode), fetch)

\* fetchUsageFromPath(path, envAPIKey): path is "" or names a file that cannot
\* be read ("unreadable"), that holds no JSON fitting authFile ("badjson"), or
\* that decodes to auth ("ok"); fetch is what the app-server exchange comes to
fetchUsageFromPath(path, envAPIKey, auth, fetch) ==
    IF path = "" THEN usageFromAPIKey(envAPIKey, fetch)
    ELSE IF path = "unreadable" THEN usageFromAPIKey(envAPIKey, fetch)
    ELSE IF path = "badjson" THEN [err |-> "parse", usage |-> NoUsage]
    ELSE LET envKey == TrimSpace(envAPIKey)
             apiKey == IF envKey = <<>> /\ ~auth.OpenAIAPIKey.nil
                       THEN TrimSpace(auth.OpenAIAPIKey.v) ELSE envKey
             isKey == auth.AuthMode = "api_key" \/ apiKey # <<>>
             plan == IF isKey THEN PlanAPIKey
                     ELSE planFromTokens(auth.Tokens.IDToken, auth.Tokens.AccessToken)
             planSource == IF isKey THEN "api key" ELSE "codex auth"
         IN  populateRateLimits(MkUsage(plan, planSource, auth.AuthMode), fetch)

\* the inputs tried
KeyTexts == {<<>>, <<" ">>, <<"s", "k">>, <<" ", "s", "k", "\n">>}
IDTokens == {EmptyToken, Token(FALSE, 1, TRUE, TRUE, <<>>), Token(FALSE, 3, FALSE, FALSE, <<>>),
             Token(FALSE, 3, TRUE, FALSE, <<>>), Jwt(<<"p", "l", "u", "s">>),
             Jwt(<<" ", "P", "r", "o">>), Jwt(<<"x">>)}
AccessTokens == {EmptyToken, Token(FALSE, 1, TRUE, TRUE, <<>>), Jwt(<<"t", "e", "a", "m">>),
                 Jwt(<<>>)}
AuthFiles == {AuthFile(mode, key, id, acc) :
                 mode \in {"", "chatgpt", "api_key"},
                 key \in {Nil} \cup {Ptr(k) : k \in KeyTexts \ {<<" ", "s", "k", "\n">>}},
                 id \in IDTokens, acc \in AccessTokens}
Fetches == {FetchFailed, Fetched(Nil), Fetched(Ptr(<<"P", "l", "u", "s">>)),
            Fetched(Ptr(<<"a", "p", "i", "_", "k", "e", "y">>)),
            FetchedWindows(Nil, RateLimitWindow(42, 300, 1700000000),
                           RateLimitWindow(7, 10080, 0))}
UsageArgs ==
    {[fn |-> "fetchUsageFromPath", path |-> p, envAPIKey |-> e, auth |-> ZeroAuthFile,
      fetch |-> f] : p \in {"", "unreadable", "badjson"}, e \in KeyTexts, f \in Fetches}
    \cup {[fn |-> "fetchUsageFromPath", path |-> "ok", envAPIKey |-> e, auth |-> a,
           fetch |-> f] : e \in KeyTexts, a \in AuthFiles, f \in Fetches}

TokenArgs ==
    {[fn |-> "planFromTokens", idToken |-> id, accessToken |-> acc] :
        id \in IDTokens \cup AccessTokens, acc \in IDTokens \cup AccessTokens}

InitUsage ==
    /\ NoClient
    /\ arg \in UsageArgs \cup TokenArgs
    /\ res = NoRes

\* the call planFromTokens(idToken, accessToken)
PlanFromTokens ==
    /\ arg.fn = "planFromTokens"
    /\ ~res.set
    /\ res' = [set |-> TRUE, v |-> planFromTokens(arg.idToken, arg.accessToken)]
    /\ UNCHANGED <<clientVars, closeLog, arg>>

\* the call fetchUsageFromPath(path, envAPIKey)
FetchUsage ==
    /\ arg.fn = "fetchUsageFromPath"
    /\ ~res.set
    /\ res' = [set |-> TRUE,
               v |-> fetchUsageFromPath(arg.path, arg.envAPIKey, arg.auth, arg.fetch)]
    /\ UNCHANGED <<clientVars, closeLog, arg>>

NextUsage == FetchUsage \/ PlanFromTokens

SpecUsage == InitUsage /\ [][NextUsage]_vars

\* ------------------------------------------------------------------- run
\* What a command does is kept as the list of the outside calls it makes:
\* "keychain" (the security command behind keychain.GetAccessToken),
\* "http" (client.FetchUsage), "DisplayUsage", "codex.HasCredentials",
\* "codex.FetchUsage", "app-server" (the launch inside it) and
\* "DisplayCodexUsage".  env says how the outside answers: token and http
\* are TRUE when keychain.GetAccessToken and client.FetchUsage succeed, codex
\* is what codex.FetchUsage finds ("ok", "ErrAuthNotFound" or "parse").
Done(log, err) == [log |-> log, err |-> err]

runAuthStatus(env) == Done(<<"keychain">>, "nil")

runCodexAuthStatus(env) == Done(<<"codex.HasCredentials">>, "nil")

\* codex.FetchUsage(): the app-server is launched once credentials were found
codexFetchUsage(env) ==
    IF env.codex = "ok" THEN Done(<<"codex.FetchUsage", "app-server">>, "nil")
    ELSE Done(<<"codex.FetchUsage">>, env.codex)

runCodexUsage(env) ==
    LET f == codexFetchUsage(env)
    IN  IF f.err # "nil" THEN f
        ELSE Done(f.log \o <<"DisplayCodexUsage">>, "nil")

runUsage(env) ==
    IF ~env.token THEN Done(<<"keychain">>, "ErrCredentialsNotFound")
    ELSE IF ~env.http THEN Done(<<"keychain", "http">>, "http")
    ELSE LET f == codexFetchUsage(env)
             log == <<"keychain", "http", "DisplayUsage">> \o f.log
         IN  IF f.err = "ErrAuthNotFound" THEN Done(log, "nil")
             ELSE IF f.err # "nil" THEN Done(log, f.err)
             ELSE Done(log \o <<"DisplayCodexUsage">>, "nil")

\* a version that takes every codex command for the usage display
runCodexAlwaysUsage(args, env) ==
    IF Len(args) > 0 /\ args[1] \in {"auth", "status"} THEN runAuthStatus(env)
    ELSE IF Len(args) > 0 /\ args[1] = "codex" THEN runCodexUsage(env)
    ELSE runUsage(env)

run(args, env) ==
    IF Len(args) > 0 /\ args[1] \in {"auth", "status"} THEN runAuthStatus(env)
    ELSE IF Len(args) > 0 /\ args[1] = "codex"
    THEN IF Len(args) > 1 /\ args[2] \in {"auth", "status"}
         THEN runCodexAuthStatus(env)
         ELSE runCodexUsage(env)
    ELSE runUsage(env)

ArgWords == {"auth", "status", "codex", "usage"}
ArgLists == UNION {[1..n -> ArgWords] : n \in 0..MaxArgs}
Envs == [token : BOOLEAN, http : BOOLEAN, codex : {"ok", "ErrAuthNotFound", "parse"}]
RunArgs == {[fn |-> "run", args |-> a, env |-> e] : a \in ArgLists, e \in Envs}

InitRun ==
    /\ NoClient
    /\ arg \in RunArgs
    /\ res = NoRes

\* the call run(os.Args[1:])
Run ==
    /\ arg.fn = "run"
    /\ ~res.set
    /\ res' = [set |-> TRUE, v |-> run(arg.args, arg.env)]
    /\ UNCHANGED <<clientVars, closeLog, arg>>

NextRun == Run

SpecRun == InitRun /\ [][NextRun]_vars

\* Close called on a ready client, and called again: main calls c.Close() up to
\* MaxCloses times while the child writes or ends and a sendRequest of thread A
\* is under way.
InitClose ==
    /\ InitCommon
    /\ arg = NoArg /\ res = NoRes
    /\ frame = [t \in Threads |->
                   IF t = "A" THEN Frame(1, "methodA", "null", FALSE, 1, "done")
                   ELSE NoFrame]
    /\ pc = [t \in Threads |->
                CASE t = "A" -> "sr_write" [] t = "main" -> "open" [] OTHER -> "idle"]
    /\ child = "running"
    /\ rpc = "read"
    /\ clientRet = "client"

\* client.Close()
Close ==
    /\ pc["main"] \in {"open", "closed"}
    /\ closeCount < MaxCloses
    /\ CallClose("closed")
    /\ UNCHANGED <<studyVars, now, ctxDeadline, ret, outVal, lastMsg, nRecv, wErr,
                   pipeVars, childVars, readerVars, fetchVars>>

NextClose ==
    \/ Tick(MaxCallTime)
    \/ \E line \in ConcLineSet : ChildEmit(line, MaxCallLines)
    \/ ChildExit
    \/ ReadLoopEnd
    \/ ReadLoopLine
    \/ ReadLoopSend
    \/ \E t \in Threads : SendRequestLock(t)
    \/ \E t \in Threads : SendRequestUnlock(t)
    \/ \E t \in Threads : SendRequestCancel(t)
    \/ \E t \in Threads : SendRequestRecv(t)
    \/ Close
    \/ CloseStdin
    \/ CloseStdout
    \/ CloseKill
    \/ CloseWait

SpecClose == InitClose /\ [][NextClose]_vars

\* The same client and call, with a child whose output may end in the middle
\* of a line.
NextTail ==
    \/ Tick(MaxCallTime)
    \/ \E line \in TailLineSet : ChildEmit(line, MaxCallLines)
    \/ \E text \in TailSet : ChildEmitPartial(text)
    \/ ChildExit
    \/ ReadLoopEnd
    \/ ReadLoopLine
    \/ ReadLoopSend
    \/ SendRequestLock("A")
    \/ SendRequestUnlock("A")
    \/ SendRequestCancel("A")
    \/ SendRequestRecv("A")
    \/ Close
    \/ CloseStdin
    \/ CloseStdout
    \/ CloseKill
    \/ CloseWait

SpecTail == InitClose /\ [][NextTail]_vars

\* Close on a client whose child writes more than c.ch holds: thread A makes a
\* request whose token has fired, so that it may take any number of messages
\* before it gives up, and main calls c.Close() once, as the deferred call of
\* fetchRateLimitsFromAppServer does.
InitLeak ==
    /\ InitCommon
    /\ arg = NoArg /\ res = NoRes
    /\ frame = [t \in Threads |->
                   IF t = "A" THEN Frame(2, "method", "null", TRUE, 0, "done")
                   ELSE NoFrame]
    /\ pc = [t \in Threads |->
                CASE t = "A" -> "sr_write" [] t = "main" -> "open" [] OTHER -> "idle"]
    /\ child = "running"
    /\ rpc = "read"
    /\ clientRet = "client"

NextLeak ==
    \/ ChildEmit(QueueLine(Len(outHist) + 1), MaxQueueLines)
    \/ ReadLoopEnd
    \/ ReadLoopLine
    \/ ReadLoopSend
    \/ SendRequestLock("A")
    \/ SendRequestUnlock("A")
    \/ SendRequestCancel("A")
    \/ SendRequestRecv("A")
    \/ (closeCount = 0 /\ Close)
    \/ CloseStdin
    \/ CloseStdout
    \/ CloseKill
    \/ CloseWait

SpecLeak == InitLeak /\ [][NextLeak]_vars

\* Three threads share one ready client: A and B each call sendRequest (ids 1
\* and 2), N calls sendNotification.
InitConc ==
    /\ InitCommon
    /\ arg = NoArg /\ res = NoRes
    /\ frame = [t \in Threads |->
                   CASE t = "A" -> Frame(1, "methodA", "null", FALSE, 1, "done")
                     [] t = "B" -> Frame(2, "methodB", "null", TRUE, 1, "done")
                     [] t = "N" -> Frame(0, "initialized", "null", FALSE, 0, "done")
                     [] OTHER -> NoFrame]
    /\ pc = [t \in Threads |->
                CASE t \in {"A", "B"} -> "sr_write"
                  [] t = "N" -> "sn_write"
                  [] OTHER -> "idle"]
    /\ child = "running"
    /\ rpc = "read"
    /\ clientRet = "client"

NextConc ==
    \/ Tick(MaxCallTime)
    \/ \E line \in ConcLineSet : ChildEmit(line, MaxCallLines)
    \/ ChildExit
    \/ ReadLoopEnd
    \/ ReadLoopLine
    \/ ReadLoopSend
    \/ \E t \in Threads : SendRequestLock(t)
    \/ \E t \in Threads : SendRequestUnlock(t)
    \/ \E t \in Threads : SendRequestCancel(t)
    \/ \E t \in Threads : SendRequestRecv(t)
    \/ \E t \in Threads : SendNotificationLock(t)
    \/ \E t \in Threads : SendNotificationUnlock(t)

SpecConc == InitConc /\ [][NextConc]_vars

\* ================================================================== claims
\* written text of the identifiers in use, for stating what the child echoes
DecimalText(id) == CASE id = 1 -> "1" [] id = 2 -> "2" [] id = 12 -> "12"
\* the two forms in which the child may echo the identifier id
EchoForms(id) == {JInt(id), JStr(DecimalText(id))}
Returned(t) == pc[t] \notin {"sr_write", "sr_write2", "sr_wait"}

\* C1: when sendRequest takes from c.ch a message without error descriptor
\* whose identifier is the request's, as a JSON integer or as the JSON string of
\* its decimal text, and whose result decodes into out (or no out is given), it
\* returns nil and out holds the decoded result.
C1_MatchingResponseSucceeds ==
    \A t \in Threads :
        (/\ nRecv[t] > 0
         /\ lastMsg[t].Error.nil
         /\ lastMsg[t].ID \in EchoForms(frame[t].id)
         /\ frame[t].hasOut => (lastMsg[t].Result.t = "obj" /\ lastMsg[t].Result.ok))
        => /\ Returned(t)
           /\ ret[t] = ErrNil
           /\ frame[t].hasOut => outVal[t] = [set |-> TRUE, plan |-> lastMsg[t].Result.n]

C1_Witness ==
    /\ pc["A"] = "done"
    /\ frame["A"].id = 2 /\ frame["A"].hasOut
    /\ lastMsg["A"].ID = JStr("2")
    /\ ret["A"] = ErrNil
    /\ outVal["A"] = [set |-> TRUE, plan |-> 1]

\* C2: when sendRequest takes a message with an error descriptor, whatever its
\* identifier and result, it returns an error: errNotInitialized exactly when the
\* text is "Not initialized", otherwise the error made of the remote text.
C2_ErrorMessageFails ==
    \A t \in Threads :
        (nRecv[t] > 0 /\ ~lastMsg[t].Error.nil)
        => /\ Returned(t)
           /\ ret[t] # ErrNil
           /\ (ret[t] = errNotInitialized) <=> (lastMsg[t].Error.Message = "Not initialized")
           /\ lastMsg[t].Error.Message # "Not initialized"
              => ret[t] = Err("errorf", "codex app-server error: " \o lastMsg[t].Error.Message)

C2_Witness ==
    /\ pc["A"] = "done"
    /\ lastMsg["A"].ID = JAbsent
    /\ lastMsg["A"].Result.t = "obj"
    /\ lastMsg["A"].Error.Message = "not initialized"
    /\ ret["A"] = Err("errorf", "codex app-server error: not initialized")

\* C3 as stated: a sendRequest whose token had fired when the call began (so
\* before any message was delivered) and whose write succeeded returns the
\* cancellation error.
StudiedCall(t) == frame[t].method = "method"
InitializeLine == Request(1, "initialize", "clientInfo")
InitializedLine == Notification("initialized", "null")
RateLimitsLine == Request(2, "account/rateLimits/read", "null")
HandshakeChunks ==
    <<Chunk(InitializeLine, 1), Chunk(InitializeLine, 2),
      Chunk(InitializedLine, 1), Chunk(InitializedLine, 2)>>
AllChunks == HandshakeChunks \o <<Chunk(RateLimitsLine, 1), Chunk(RateLimitsLine, 2)>>
IsPrefix(a, b) == Len(a) <= Len(b) /\ a = SubSeq(b, 1, Len(a))
\* main has received a response to the initialize request
InitializeAnswered ==
    \E k \in 1..Len(received) :
        /\ received[k].by = "main"
        /\ received[k].msg.ID \in EchoForms(1)
        /\ received[k].msg.Error.nil

\* C4: when newAppServerClient has returned after a failed handshake it
\* returned nil and the error of the failed send, and the child it had started
\* has been killed and waited on; it returns a client only after the initialize
\* request was answered and the initialized notification was written.
C4_NoHalfInitializedClient ==
    pc["main"] = "new_done" =>
        /\ (clientRet = "nil") <=> (ctorErr # ErrNil)
        /\ (ctorErr # ErrNil /\ child # "none")
           => /\ ctorErr = ret["main"]
              /\ child = "reaped"
              /\ closeCount = 1
        /\ (ctorErr # ErrNil /\ child = "none") => (ctorErr = ErrStart /\ closeCount = 0)
        /\ clientRet = "client"
           => /\ InitializeAnswered
              /\ stdinBuf = HandshakeChunks
              /\ closeCount = 0

C4_Witness ==
    /\ pc["main"] = "new_done"
    /\ clientRet = "nil"
    /\ ctorErr = ErrDeadline
    /\ termBy = "close"
    /\ child = "reaped"

\* C5: what has been written to the child is always a prefix of initialize,
\* initialized, account/rateLimits/read; the notification is begun only after a
\* response to initialize was received.
C5_HandshakeOrder ==
    /\ IsPrefix(stdinBuf, AllChunks)
    /\ Len(stdinBuf) >= 3 => InitializeAnswered

C5_Witness == stdinBuf = AllChunks /\ pc["main"] = "returned"

\* C6: when fetchRateLimitsFromAppServer returns, Close has run exactly once if
\* a child was started (and never otherwise), and that child is dead and
\* waited on; Close is never run twice.
C6_CloseExactlyOnce ==
    /\ closeCount <= 1
    /\ pc["main"] = "returned" =>
          \/ child = "none" /\ closeCount = 0
          \/ child = "reaped" /\ closeCount = 1

C6_Witness ==
    /\ pc["main"] = "returned"
    /\ fetchErr = ErrParse
    /\ closeCount = 1
    /\ child = "reaped"

\* C7: a message is received by one caller only. When B has received (and so
\* discarded) every delivered response that carries A's identifier, A's call
\* does not succeed: it ends with the cancellation error, or with the error of
\* its write.
Count(seq, Test(_)) == Len(SelectSeq(seq, Test))
ForA(m) == m.Error.nil /\ m.ID \in EchoForms(frame["A"].id)
ForAByA(r) == r.by = "A" /\ ForA(r.msg)
ForAByB(r) == r.by = "B" /\ ForA(r.msg)
C7_StolenResponse ==
    /\ Count(received, ForAByA) + Count(received, ForAByB) <= Count(delivered, ForA)
    /\ (/\ pc["A"] = "done"
        /\ Count(received, ForAByB) > 0
        /\ Count(received, ForAByB) = Count(delivered, ForA))
       => ret["A"] \in {ErrDeadline, ErrWrite}

C7_Witness ==
    /\ pc["A"] = "done" /\ pc["B"] = "done"
    /\ Count(delivered, ForA) = 1
    /\ Count(received, ForAByB) = 1
    /\ nRecv["A"] = 0
    /\ ret["A"] = ErrDeadline

\* C8: what the child receives is a sequence of whole lines, each one message
\* of one caller with its newline, after which at most one line is in progress.
C8_WholeLines ==
    \A i \in 1..Len(stdinBuf) :
        /\ stdinBuf[i].part = (IF i % 2 = 1 THEN 1 ELSE 2)
        /\ i % 2 = 0 => stdinBuf[i].p = stdinBuf[i - 1].p
        /\ \E t \in {"A", "B"} :
              \/ stdinBuf[i].p = Request(frame[t].id, frame[t].method, frame[t].params)
              \/ stdinBuf[i].p = Notification(frame["N"].method, frame["N"].params)

C8_Witness ==
    /\ Len(stdinBuf) = 6
    /\ stdinBuf[1].p = Request(2, "methodB", "null")
    /\ stdinBuf[3].p = Notification("initialized", "null")
    /\ stdinBuf[5].p = Request(1, "methodA", "null")

\* C9: readLoop drops a line that is empty after trimming or does not decode,
\* and goes on: what it has sent on c.ch (and holds to send) is, in order, the
\* decoded messages of the lines read so far that do decode, and it stops only
\* at a failed Read.
NotSpace(b) == b.k # "ws"
Decodes(line) ==
    /\ Len(SelectSeq(line, NotSpace)) = 1
    /\ \/ SelectSeq(line, NotSpace)[1].k = "null"
       \/ /\ SelectSeq(line, NotSpace)[1].k = "object"
          /\ ~UnmarshalMsg(SelectSeq(line, NotSpace)[1].w).err
DecodedOf(line) ==
    IF SelectSeq(line, NotSpace)[1].k = "null" THEN ZeroMsg
    ELSE UnmarshalMsg(SelectSeq(line, NotSpace)[1].w).msg
RECURSIVE DecodedLines(_)
DecodedLines(lines) ==
    IF lines = <<>> THEN <<>>
    ELSE IF Decodes(Head(lines))
    THEN <<DecodedOf(Head(lines))>> \o DecodedLines(Tail(lines))
    ELSE DecodedLines(Tail(lines))

C9_MalformedLinesDropped ==
    /\ delivered \o (IF rpc = "send" THEN <<held>> ELSE <<>>)
          = DecodedLines(SubSeq(outHist, 1, rdPos))
    /\ rpc = "stopped" => (stdoutClosed \/ (child # "running" /\ rdPos = Len(outHist)))

C9_Witness ==
    /\ Len(outHist) = 2
    /\ ~Decodes(outHist[1])
    /\ outHist[2] = <<WS("\t"), Resp(JInt(2), JObj(1, TRUE)), WS("\r")>>
    /\ frame["A"].id = 2 /\ frame["A"].hasOut
    /\ pc["A"] = "done"
    /\ nRecv["A"] = 1
    /\ ret["A"] = ErrNil
    /\ outVal["A"] = [set |-> TRUE, plan |-> 1]

\* C10: a message without error descriptor whose identifier is not the awaited
\* one (or that has none) is skipped: the call stays waiting with no error, and
\* if nothing else is taken it can only end by cancellation.
C10_MismatchSkipped ==
    \A t \in Threads :
        (/\ nRecv[t] > 0
         /\ lastMsg[t].Error.nil
         /\ lastMsg[t].ID \notin EchoForms(frame[t].id))
        => \/ pc[t] = "sr_wait" /\ ret[t] = ErrNil
           \/ Returned(t) /\ ret[t] = ErrDeadline

C10_Witness ==
    /\ pc["A"] = "done"
    /\ frame["A"].id = 2
    /\ nRecv["A"] = 2
    /\ received[1].msg.ID = JStr("12")
    /\ received[1].msg.Error.nil
    /\ received[2].msg.ID = JAbsent
    /\ ret["A"] = ErrDeadline

\* the messages taken from c.ch so far, in the order they were taken
ReceivedMsgs == [k \in 1..Len(received) |-> received[k].msg]

\* C11: the messages readLoop has sent on c.ch are the decoded messages of the
\* lines read, in the order read, and what callers have taken from c.ch followed
\* by what c.ch still holds is exactly that sequence: nothing is reordered,
\* duplicated or dropped.
C11_QueueKeepsOrder ==
    /\ IsPrefix(delivered, DecodedLines(SubSeq(outHist, 1, rdPos)))
    /\ Len(DecodedLines(SubSeq(outHist, 1, rdPos))) - Len(delivered)
          = (IF rpc = "send" THEN 1 ELSE 0)
    /\ ReceivedMsgs \o ch = delivered

C11_Witness ==
    /\ Len(delivered) = 2
    /\ delivered[1] # delivered[2]
    /\ delivered[1] = DecodedOf(outHist[1])
    /\ delivered[2] = DecodedOf(outHist[2])
    /\ Len(received) = 2
    /\ received[1].msg = delivered[1]
    /\ received[2].msg = delivered[2]
    /\ ch = <<>>

\* C12: a sendRequest that took no message from c.ch (the child wrote nothing
\* that decodes, or its output ended and readLoop stopped) and whose write
\* succeeded returns the cancellation error, and not before the deadline of its
\* token; and a waiting sendRequest always returns in the end.
C12_SilentChildTimesOut ==
    /\ [](\A t \in Threads :
            (StudiedCall(t) /\ Returned(t) /\ nRecv[t] = 0 /\ ret[t] # ErrWrite)
            => (ret[t] = ErrDeadline /\ now >= frame[t].ctx))
    /\ (pc["A"] = "sr_wait") ~> Returned("A")

C12_Witness ==
    /\ pc["A"] = "done"
    /\ frame["A"].ctx = 1
    /\ outHist = <<>>
    /\ rpc = "stopped"
    /\ nRecv["A"] = 0
    /\ now = 1
    /\ ret["A"] = ErrDeadline

\* C13: when the account/rateLimits/read call has returned the cancellation
\* error, the child it was sent to is still running (unless it ended by
\* itself): cancellation does not end the child, only Close does.
C13_ChildOutlivesCancellation ==
    (pc["main"] = "req_done" /\ ret["main"] = ErrDeadline /\ termBy # "self")
    => child = "running"

\* C14: the token of the account/rateLimits/read request fires
\* appServerRequestTimeout after that request is issued, whatever time the
\* launch and the handshake have taken.
C14_OwnTimeouts ==
    [][(pc["main"] = "new_done" /\ pc'["main"] = "sr_write")
       => frame'["main"].ctx = now + appServerRequestTimeout]_vars

\* the steps of Close in the order of the code
CloseSteps == <<"stdin", "stdout", "kill", "wait">>
ClosePcs == <<"close_stdin", "close_stdout", "close_kill", "close_wait">>
InClose == \E i \in 1..4 : pc["main"] = ClosePcs[i]

\* C15: Close attempts its four steps in the order close stdin, close stdout,
\* kill, wait, whatever the earlier steps returned: the log of attempted steps
\* is the four steps over and over, a Close that has returned has attempted all
\* four, and no error of a step reaches the caller.
C15_AllStepsAttempted ==
    /\ \A i \in 1..Len(closeLog) : closeLog[i].step = CloseSteps[((i - 1) % 4) + 1]
    /\ pc["main"] = "close_stdin" => Len(closeLog) = 4 * closeCount
    /\ \A i \in 2..4 : pc["main"] = ClosePcs[i] => Len(closeLog) = 4 * (closeCount - 1) + i - 1
    /\ ~InClose => Len(closeLog) = 4 * closeCount
    /\ ret["main"] = ErrNil

C15_Witness ==
    /\ pc["main"] = "closed"
    /\ Len(closeLog) = 8
    /\ closeLog[5] = Step("stdin", TRUE)
    /\ closeLog[6] = Step("stdout", TRUE)
    /\ closeLog[7] = Step("kill", TRUE)
    /\ closeLog[8] = Step("wait", TRUE)

\* C16: every call of Close, the first or a later one, can take each of its
\* steps at once (none blocks), and when it has returned the client is closed:
\* both streams closed, the child dead and waited on.
C16_CloseIdempotent ==
    /\ pc["main"] = "close_stdin" => ENABLED CloseStdin
    /\ pc["main"] = "close_stdout" => ENABLED CloseStdout
    /\ pc["main"] = "close_kill" => ENABLED CloseKill
    /\ pc["main"] = "close_wait" => ENABLED CloseWait
    /\ pc["main"] = "closed" => (stdinClosed /\ stdoutClosed /\ child = "reaped")
    /\ (closeCount >= 2 \/ pc["main"] = "closed")
       => (stdinClosed /\ stdoutClosed /\ child = "reaped")

C16_Witness ==
    /\ pc["main"] = "closed"
    /\ closeCount = 2
    /\ termBy = "self"
    /\ stdinClosed /\ stdoutClosed /\ child = "reaped"

WritePcs == {"sr_write", "sr_write2", "sn_write", "sn_write2"}

\* C17 as stated: once Close has closed the streams nobody attempts a write or
\* a read: no thread begins a Write on c.stdin, and readLoop begins no ReadBytes
\* that has to read c.stdout (its buffer holding no line).
C17_Original ==
    [][/\ stdinClosed => \A t \in Threads : (pc'[t] \in WritePcs => pc[t] \in WritePcs)
       /\ ~(stdoutClosed /\ rpc = "send" /\ rpc' = "read" /\ rdPos = bufEnd)]_vars

\* C17 amended: once Close has closed the streams the caller begins no send,
\* nothing more reaches the child, and no Read of c.stdout brings anything; the
\* reader, if it comes to read again, stops at that Read and stays stopped.
C17_NoIOSucceedsAfterClose ==
    [][/\ stdinClosed => /\ stdinBuf' = stdinBuf
                          /\ \A t \in Threads :
                                (pc'[t] \in WritePcs => pc[t] \in WritePcs)
       /\ stdoutClosed => bufEnd' = bufEnd
       /\ (stdoutClosed /\ rpc = "read" /\ rdPos = bufEnd /\ rpc' # rpc)
          => rpc' = "stopped"
       /\ rpc = "stopped" => rpc' = "stopped"]_vars

C17_Witness ==
    /\ pc["main"] = "returned"
    /\ closeCount = 1
    /\ rpc = "stopped"
    /\ bufEnd < Len(outHist)
    /\ Len(delivered) = 1

\* the line a thread of the concurrent study writes
LineOf(t) ==
    IF t = "N" THEN Notification(frame[t].method, frame[t].params)
    ELSE Request(frame[t].id, frame[t].method, frame[t].params)
IsPart(c, t, part) == c = Chunk(LineOf(t), part)
Parts(t, part) == Len(SelectSeq(stdinBuf, LAMBDA c : IsPart(c, t, part)))

\* C18: a send whose Write failed returns the error of the Write: it has taken
\* nothing from c.ch, it does not hold c.mu, its line was begun at most once and
\* never completed; a sendRequest waits on c.ch only after its whole line was
\* written, and a send that ended without its whole line written returned the
\* error of the Write.
C18_WriteErrorReturned ==
    \A t \in {"A", "B", "N"} :
        /\ Parts(t, 1) <= 1
        /\ (pc[t] = "done" /\ ret[t] = ErrWrite)
           => (nRecv[t] = 0 /\ mu # t /\ Parts(t, 2) = 0)
        /\ pc[t] = "sr_wait" => Parts(t, 2) = 1
        /\ (pc[t] = "done" /\ Parts(t, 2) = 0) => ret[t] = ErrWrite

C18_Witness ==
    /\ pc["A"] = "done" /\ ret["A"] = ErrWrite /\ Parts("A", 1) = 1
    /\ pc["N"] = "done" /\ ret["N"] = ErrWrite
    /\ ch # <<>>
    /\ mu = "free"

\* C19: for a reset time a positive whole number of minutes ahead, with H >= 1
\* whole hours in total and M minutes left over, FormatRelativeTimeFrom returns
\* "resets in <H>h <M>m", or "resets in <H>h" when M = 0, H being the total
\* number of hours also from 24 on; at or before now it returns "resets now".
C19_TotalHours ==
    (arg.fn = "FormatRelativeTimeFrom" /\ res.set /\ ~arg.isZero) =>
        LET H == arg.d \div 3600
            M == (arg.d \div 60) % 60
        IN  /\ arg.d <= 0 => res.v = "resets now"
            /\ (arg.d > 0 /\ arg.d % 60 = 0 /\ H >= 1 /\ M > 0)
               => res.v = "resets in " \o SprintfD(H) \o "h " \o SprintfD(M) \o "m"
            /\ (arg.d > 0 /\ arg.d % 60 = 0 /\ H >= 1 /\ M = 0)
               => res.v = "resets in " \o SprintfD(H) \o "h"

\* an API key applies to the call: the environment key is not blank, or the
\* auth file was read and its OPENAI_API_KEY is not blank or its auth_mode is
\* "api_key"
KeyApplies ==
    \/ TrimSpace(arg.envAPIKey) # <<>>
    \/ /\ arg.path = "ok"
       /\ \/ arg.auth.AuthMode = "api_key"
          \/ ~arg.auth.OpenAIAPIKey.nil /\ TrimSpace(arg.auth.OpenAIAPIKey.v) # <<>>

\* C20 as stated: whenever an API key applies, fetchUsageFromPath reports plan
\* api_key, whatever the tokens and also without an auth file path.
C20_Original ==
    (arg.fn = "fetchUsageFromPath" /\ res.set /\ KeyApplies) =>
        res.v.err = "nil" /\ res.v.usage.Plan = PlanAPIKey

\* C20: whenever an API key applies and the auth file, if one was read, holds
\* JSON, fetchUsageFromPath succeeds with plan source "api key" whatever the
\* tokens, and the plan it reports is api_key unless the rate-limit exchange
\* succeeded and named a plan type, which is then reported instead.
C20_APIKeyPlan ==
    (arg.fn = "fetchUsageFromPath" /\ res.set /\ KeyApplies /\ arg.path # "badjson") =>
        /\ res.v.err = "nil"
        /\ res.v.usage.PlanSource = "api key"
        /\ (arg.fetch.err \/ arg.fetch.PlanType.nil) => res.v.usage.Plan = PlanAPIKey
        /\ (~arg.fetch.err /\ ~arg.fetch.PlanType.nil)
           => res.v.usage.Plan = normalizePlan(arg.fetch.PlanType.v)

\* the file's key applies, the environment gives none, the id_token names
\* plan plus, and the plan reported is api_key
C20_Witness ==
    /\ arg.fn = "fetchUsageFromPath" /\ res.set
    /\ arg.path = "ok"
    /\ TrimSpace(arg.envAPIKey) = <<>>
    /\ arg.auth.AuthMode = "chatgpt"
    /\ arg.auth.OpenAIAPIKey = Ptr(<<"s", "k">>)
    /\ arg.auth.Tokens.IDToken = Jwt(<<"p", "l", "u", "s">>)
    /\ res.v.usage.Plan = PlanAPIKey

\* a token yields a parsable claim set: it is not empty, has a second
\* dot-separated part, and that part is base64url text of a JSON claim set
Parsable(token) == ~token.empty /\ token.parts >= 2 /\ token.b64 /\ token.json
KnownName(claim) == Str(ToLower(TrimSpace(claim))) \in KnownPlans

\* the calls that report a plan from the tokens: planFromTokens itself, and
\* fetchUsageFromPath on a decoded auth file when no API key applies and the
\* app-server names no plan type
FromTokens ==
    /\ res.set
    /\ \/ arg.fn = "planFromTokens"
       \/ /\ arg.fn = "fetchUsageFromPath" /\ arg.path = "ok" /\ ~KeyApplies
          /\ arg.fetch.err \/ arg.fetch.PlanType.nil
TokenPlan == IF arg.fn = "planFromTokens" THEN res.v ELSE res.v.usage.Plan
TheIDToken == IF arg.fn = "planFromTokens" THEN arg.idToken ELSE arg.auth.Tokens.IDToken
TheAccessToken ==
    IF arg.fn = "planFromTokens" THEN arg.accessToken ELSE arg.auth.Tokens.AccessToken

Calls(log) == {log[i] : i \in 1..Len(log)}
IsStatusWord(w) == w \in {"auth", "status"}

\* C22: "auth" and "status" only ask the Keychain: no usage request, no
\* app-server.  "codex auth" and "codex status" only look for codex
\* credentials.  "codex" followed by anything else or nothing fetches the codex
\* usage only.  Every other invocation runs the Claude usage display and then
\* the Codex one.
C22_Dispatch ==
    (arg.fn = "run" /\ res.set) =>
        LET a == arg.args
            log == res.v.log
        IN  /\ (Len(a) > 0 /\ IsStatusWord(a[1])) => log = <<"keychain">>
            /\ (Len(a) > 1 /\ a[1] = "codex" /\ IsStatusWord(a[2]))
               => log = <<"codex.HasCredentials">>
            /\ (Len(a) > 0 /\ a[1] = "codex" /\ ~(Len(a) > 1 /\ IsStatusWord(a[2])))
               => /\ log[1] = "codex.FetchUsage"
                  /\ Calls(log) \cap {"keychain", "http", "DisplayUsage",
                                       "codex.HasCredentials"} = {}
                  /\ arg.env.codex = "ok"
                     => log = <<"codex.FetchUsage", "app-server", "DisplayCodexUsage">>
            /\ ~(Len(a) > 0 /\ (IsStatusWord(a[1]) \/ a[1] = "codex"))
               => /\ \/ IsPrefix(log, <<"keychain", "http", "DisplayUsage",
                                        "codex.FetchUsage", "app-server",
                                        "DisplayCodexUsage">>)
                     \/ log = <<"keychain", "http", "DisplayUsage", "codex.FetchUsage">>
                  /\ log[1] = "keychain"
                  /\ (arg.env.token /\ arg.env.http /\ arg.env.codex = "ok")
                     => Len(log) = 6

\* "codex status" was run and looked for the codex credentials
C22_Witness ==
    /\ arg.fn = "run" /\ res.set
    /\ arg.args = <<"codex", "status">>
    /\ arg.env.codex = "ok"
    /\ res.v.log = <<"codex.HasCredentials">>

\* C23: sendRequest returns nil only after taking a message without error
\* descriptor whose identifier matches the request's and which carries a
\* result; a message with the matching identifier and no result (such as a
\* call made by the child under the same id) never makes the call succeed.
C23_SuccessNeedsResult ==
    \A t \in Threads :
        (StudiedCall(t) /\ pc[t] = "done" /\ ret[t] = ErrNil)
        => /\ nRecv[t] > 0
           /\ lastMsg[t].Error.nil
           /\ idMatches(lastMsg[t].ID, frame[t].id)
           /\ lastMsg[t].Result # JAbsent

\* a result that does not decode into a rateLimitsResponse: no result at all,
\* or JSON that is neither null nor an object of that shape
Undecodable(raw) == raw.t # "null" /\ ~(raw.t = "obj" /\ raw.ok)

\* C24: when sendRequest takes the message that matches its identifier and
\* has no error descriptor, then with out given and a result that cannot be
\* decoded into it (an absent result included) it returns the parse error,
\* neither nil nor the cancellation error, and stores nothing; with no out the
\* result is not decoded and the call returns nil whatever the result is.
C24_DecodeError ==
    \A t \in Threads :
        (/\ StudiedCall(t)
         /\ nRecv[t] > 0
         /\ lastMsg[t].Error.nil
         /\ idMatches(lastMsg[t].ID, frame[t].id))
        => /\ Returned(t)
           /\ (frame[t].hasOut /\ Undecodable(lastMsg[t].Result))
              => ret[t] = ErrParse /\ outVal[t] = ZeroResponse
           /\ ~frame[t].hasOut => ret[t] = ErrNil

\* the call with out took the matching message without result and returned
\* the parse error
C24_Witness ==
    /\ pc["A"] = "done"
    /\ frame["A"].hasOut
    /\ lastMsg["A"].ID = JStr("2")
    /\ lastMsg["A"].Result = JAbsent
    /\ ret["A"] = ErrParse

\* the message that sat in c.ch when the request line was written, once the
\* call has taken it: c.ch being a queue, it is the first one taken
TookStale(t) == nRecv[t] >= 1 /\ received[1].msg = delivered[1]

\* C25 as stated: a message that already sat in c.ch when the request line
\* was written never makes the new call fail and never makes it succeed: a
\* call that has taken nothing else can only end by cancellation.
C25_Original ==
    \A t \in Threads :
        (StudiedCall(t) /\ pc[t] = "done" /\ nRecv[t] = 1 /\ TookStale(t))
        => ret[t] = ErrDeadline

\* C25: sendRequest takes what sits in c.ch first and treats it like any
\* other message.  A left-over message without error descriptor whose
\* identifier is not the request's is skipped and decides nothing; one with an
\* error descriptor makes the call fail, whatever its identifier; one with the
\* request's identifier and no error descriptor ends the call.
C25_StaleTreatedAlike ==
    \A t \in Threads :
        (StudiedCall(t) /\ nRecv[t] >= 1)
        => LET m == delivered[1]
               skipped == m.Error.nil /\ ~idMatches(m.ID, frame[t].id)
           IN  /\ TookStale(t)
               /\ nRecv[t] > 1 => skipped
               /\ (nRecv[t] = 1 /\ skipped)
                  => \/ pc[t] = "sr_wait"
                     \/ pc[t] = "done" /\ ret[t] = ErrDeadline
               /\ ~m.Error.nil
                  => pc[t] = "done" /\ ret[t] = ErrRemote(m.Error.Message)
               /\ (m.Error.nil /\ idMatches(m.ID, frame[t].id))
                  => pc[t] = "done" /\ ret[t] \in {ErrNil, ErrParse}

\* a second answer to initialize was left in c.ch; the call skipped it and
\* then took its own answer
C25_Witness ==
    /\ pc["A"] = "done"
    /\ nRecv["A"] = 2
    /\ TookStale("A")
    /\ delivered[1].ID = JInt(1)
    /\ lastMsg["A"].ID = JInt(2)
    /\ ret["A"] = ErrNil

InSendRequest(t) == pc[t] \in {"sr_write", "sr_write2", "sr_wait"}

\* C26: over the life of the client that fetchRateLimitsFromAppServer makes,
\* never are two sendRequest calls under way at once: only the goroutine that
\* made the client uses it, and while the account/rateLimits/read request is
\* under way the initialize request has returned nil and the handshake lines
\* have been written.
C26_SingleRequestInFlight ==
    /\ Cardinality({t \in Threads : InSendRequest(t)}) <= 1
    /\ \A t \in Threads \ {"main"} : pc[t] = "idle"
    /\ (InSendRequest("main") /\ frame["main"].id = 2)
       => /\ initErr = ErrNil
          /\ clientRet = "client"
          /\ IsPrefix(HandshakeChunks, stdinBuf)
    /\ (InSendRequest("main") /\ frame["main"].id = 1) => clientRet = "nil"

\* the account/rateLimits/read request waits on c.ch
C26_Witness ==
    /\ pc["main"] = "sr_wait"
    /\ frame["main"].id = 2
    /\ Len(received) >= 1

\* C27: c.ch never holds more than 16 messages.  With c.ch full, readLoop
\* stays at its send with the message it decoded, reads no further line and
\* loses nothing: what was delivered and what it holds are the decoded lines
\* read so far, and what was taken plus what c.ch holds is what was delivered.
\* As soon as c.ch has room the send can go on.
C27_FullQueueBlocksReader ==
    /\ Len(ch) <= ChanCap
    /\ (rpc = "send" /\ Len(ch) = ChanCap)
       => /\ ~ENABLED ReadLoopSend
          /\ ~ENABLED ReadLoopLine
          /\ held = DecodedOf(outHist[rdPos])
          /\ Len(delivered) = rdPos - 1
    /\ (rpc = "send" /\ Len(ch) < ChanCap) => ENABLED ReadLoopSend
    /\ delivered \o (IF rpc = "send" THEN <<held>> ELSE <<>>)
          = DecodedLines(SubSeq(outHist, 1, rdPos))
    /\ ReceivedMsgs \o ch = delivered

\* c.ch is full, readLoop holds the 17th message of a child that wrote two
\* more lines than c.ch holds, and the caller has taken nothing yet
C27_Witness ==
    /\ Len(ch) = ChanCap
    /\ rpc = "send"
    /\ rdPos = ChanCap + 1
    /\ Len(outHist) = ChanCap + 2
    /\ held = DecodedOf(QueueLine(ChanCap + 1))
    /\ pc["A"] = "sr_wait"

\* a whole line of the child's output that decodes to a message for request id
AnsweredInFull(id) ==
    \E k \in 1..Len(outHist) :
        /\ Decodes(outHist[k])
        /\ idMatches(DecodedOf(outHist[k]).ID, id)

\* C28: once a read of the child's output has met the end of the stream or an
\* error, readLoop has stopped for good and sends nothing more.  What the child
\* wrote after its last newline is never sent, even if it is a whole message
\* for the waiting request: all that is ever sent comes from lines that ended
\* in a newline, and the request succeeds only on such a line.
C28_UnterminatedLineDropped ==
    /\ [](/\ delivered \o (IF rpc = "send" THEN <<held>> ELSE <<>>)
              = DecodedLines(SubSeq(outHist, 1, rdPos))
          /\ rpc = "stopped" => (stdoutClosed \/ child # "running")
          /\ (pc["A"] = "done" /\ ret["A"] = ErrNil) => AnsweredInFull(frame["A"].id))
    /\ [][rpc = "stopped" => (rpc' = "stopped" /\ delivered' = delivered)]_vars

\* the child wrote the answer to request 1 without a newline and went away;
\* readLoop stopped, nothing was sent, and the request ended by its deadline
C28_Witness ==
    /\ tail = <<Resp(JInt(1), JObj(2, TRUE))>>
    /\ outHist = <<>>
    /\ termBy = "self"
    /\ rpc = "stopped"
    /\ delivered = <<>>
    /\ pc["A"] = "done"
    /\ ret["A"] = ErrDeadline

\* C29: after Close, readLoop terminates whatever c.ch holds, a full c.ch
\* that nobody takes from included: once Close has returned and no caller
\* is left, readLoop has stopped or still has a step to take.
C29_ReaderEndsAfterClose ==
    (/\ pc["main"] = "closed"
     /\ \A t \in Threads : ~InSendRequest(t))
    => \/ rpc = "stopped"
       \/ ENABLED ReadLoopEnd
       \/ ENABLED ReadLoopLine
       \/ ENABLED ReadLoopSend

\* the send of thread t is inside its Write, between Lock and Unlock
Writing(t) == pc[t] \in {"sr_write2", "sn_write2"}
\* the send of thread t stands before c.mu.Lock()
AtLock(t) == pc[t] \in {"sr_write", "sn_write"}

\* C30: c.mu is held only during one line write: its holder is inside its
\* Write, a send that waits on c.ch or has returned (also on a failed Write)
\* does not hold it, and a send that stands before Lock can take the lock at
\* once, or its holder is another send inside its Write that can finish it,
\* whoever waits on c.ch meanwhile.
C30_LockOnlyWhileWriting ==
    /\ mu # "free" => Writing(mu)
    /\ \A t \in Threads :
          /\ pc[t] \in {"sr_wait", "done"} => mu # t
          /\ AtLock(t) =>
                \/ ENABLED (SendRequestLock(t) \/ SendNotificationLock(t))
                \/ /\ mu \in Threads \ {t}
                   /\ ENABLED (SendRequestUnlock(mu) \/ SendNotificationUnlock(mu))

C30_Witness ==
    /\ pc["A"] = "sr_wait"
    /\ mu = "B"
    /\ pc["N"] = "done" /\ ret["N"] = ErrWrite

\* the parts of lines on the child's input that carry the method of thread t
MethodParts(t, part) ==
    SelectSeq(stdinBuf, LAMBDA c : c.p.method = frame[t].method /\ c.part = part)
\* what a step leaves alone in the threads other than t and in c.ch
OthersUntouched(t) ==
    /\ ch' = ch
    /\ delivered' = delivered
    /\ \A u \in Threads \ {t} :
          /\ pc'[u] = pc[u] /\ ret'[u] = ret[u] /\ nRecv'[u] = nRecv[u]
          /\ lastMsg'[u] = lastMsg[u] /\ outVal'[u] = outVal[u]

\* C31: sendNotification writes one line, with the method and the params and
\* without id, and returns what the Write returned: a notification that
\* returned nil left exactly one whole line, one that returned the error of
\* the Write left no whole line; it never takes a message from c.ch, and none
\* of its steps changes c.ch or what another thread's send has reached.
C31_NotificationOnlyWrites ==
    /\ [](/\ nRecv["N"] = 0
          /\ Len(MethodParts("N", 1)) <= 1
          /\ \A i \in 1..Len(stdinBuf) :
                stdinBuf[i].p.method = frame["N"].method
                => (~stdinBuf[i].p.hasId /\ stdinBuf[i].p.params = frame["N"].params)
          /\ pc["N"] = "done"
             => /\ ret["N"] \in {ErrNil, ErrWrite}
                /\ ret["N"] = ErrNil <=> Len(MethodParts("N", 2)) = 1
                /\ ret["N"] = ErrWrite <=> Len(MethodParts("N", 2)) = 0)
    /\ [][pc'["N"] # pc["N"] => OthersUntouched("N")]_vars

C31_Witness ==
    /\ pc["N"] = "done" /\ ret["N"] = ErrNil
    /\ Len(MethodParts("N", 2)) = 1
    /\ ch # <<>>
    /\ pc["A"] = "sr_wait" /\ pc["B"] = "sr_wait"

\* main's last send was the initialized notification and it returned an error
NotificationFailed ==
    /\ frame["main"].method = "initialized"
    /\ pc["main"] \notin {"sn_write", "sn_write2"}
    /\ ret["main"] # ErrNil
\* main's last send was the initialize request and it returned an error
RequestFailed ==
    /\ frame["main"].method = "initialize"
    /\ pc["main"] \notin {"sr_write", "sr_write2", "sr_wait"}
    /\ ret["main"] # ErrNil
\* newAppServerClient has returned nil and err after a Close that closed both
\* files, killed the child and waited on it
ConstructionFailedWith(err) ==
    /\ clientRet = "nil"
    /\ ctorErr = err
    /\ closeCount = 1
    /\ Len(closeLog) = 4
    /\ <<closeLog[1].step, closeLog[2].step, closeLog[3].step, closeLog[4].step>>
         = <<"stdin", "stdout", "kill", "wait">>
    /\ child = "reaped"

\* C32: when the initialize request was answered and the write of the
\* initialized notification failed, newAppServerClient returns nil and the
\* error of that write after the child was killed and waited on, as it does
\* with the error of the request when step 1 failed; the fetch returns that
\* error.
C32_NotificationFailureFailsConstruction ==
    /\ NotificationFailed =>
          /\ ret["main"] = ErrWrite
          /\ InitializeAnswered
          /\ pc["main"] \in {"new_done", "returned"} => ConstructionFailedWith(ErrWrite)
          /\ pc["main"] = "returned" => fetchErr = ErrWrite
    /\ RequestFailed =>
          /\ pc["main"] \in {"new_done", "returned"} => ConstructionFailedWith(ret["main"])
          /\ pc["main"] = "returned" => fetchErr = ret["main"]

C32_Witness ==
    /\ NotificationFailed
    /\ pc["main"] = "new_done"
    /\ ConstructionFailedWith(ErrWrite)
    /\ Len(stdinBuf) = 2

\* C33: idMatches returns true exactly for an identifier that is a JSON
\* integer equal to the request identifier or a JSON string that spells it in
\* base 10; an absent identifier, null, a number with a fraction, a boolean, an
\* array, an object and any other string match no request identifier, 0
\* included.
C33_IntOrDecimalStringOnly ==
    (arg.fn = "idMatches" /\ res.set) =>
        (res.v <=> \/ arg.raw.t = "int" /\ arg.raw.n = arg.id
                   \/ arg.raw.t = "str" /\ arg.raw.s = SprintfD(arg.id))

\* the message thread t took last carries the identifier of the initialize
\* request, as an integer or as a string
TookInitializeAnswer(t) ==
    /\ StudiedCall(t) /\ frame[t].id = RateLimitsLine.id
    /\ nRecv[t] >= 1
    /\ lastMsg[t].ID \in EchoForms(InitializeLine.id)

\* C34 as stated: the identifiers of the two requests differ, and the request
\* with identifier 2 never ends on a message that carries identifier 1: after
\* it took one it waits on, or ends by cancellation.
C34_Original ==
    /\ InitializeLine.id # RateLimitsLine.id
    /\ \A t \in Threads :
          TookInitializeAnswer(t)
          => \/ pc[t] = "sr_wait"
             \/ pc[t] = "done" /\ ret[t] = ErrDeadline

\* C34: the identifiers of the two requests differ (1 and 2), so the request
\* with identifier 2 skips every message that carries identifier 1 and no
\* error descriptor, a second or late answer to initialize included: it never
\* succeeds on it; a message with identifier 1 that carries an error descriptor
\* ends it with that error.
C34_InitializeAnswerSkipped ==
    /\ InitializeLine.id # RateLimitsLine.id
    /\ \A t \in Threads :
          TookInitializeAnswer(t)
          => IF lastMsg[t].Error.nil
             THEN \/ pc[t] = "sr_wait"
                  \/ pc[t] = "done" /\ ret[t] = ErrDeadline
             ELSE pc[t] = "done" /\ ret[t] = ErrRemote(lastMsg[t].Error.Message)

\* the request took a second answer to initialize that was left in c.ch, then
\* another one the child wrote late, and goes on waiting
C34_Witness ==
    /\ TookInitializeAnswer("A")
    /\ nRecv["A"] = 2
    /\ received[1].msg.ID = JInt(1) /\ received[1].msg.Error.nil
    /\ lastMsg["A"].Error.nil
    /\ pc["A"] = "sr_wait"

\* the call of thread t was made with a token that had fired already
CalledFired(t) == StudiedCall(t) /\ frame[t].ctx = 0

\* C35 as stated: a sendRequest called with a fired token writes nothing,
\* takes no message from c.ch and returns the cancellation error.
C35_Original ==
    \A t \in Threads :
        CalledFired(t)
        => /\ Parts(t, 1) = 0
           /\ nRecv[t] = 0
           /\ Returned(t) => ret[t] = ErrDeadline

\* C35: a sendRequest called with a fired token writes its line all the same
\* (it returns without the whole line written only with the error of the
\* Write) and then never blocks: while it waits it can return the cancellation
\* error, which is all it returns when it took no message; it may take what
\* c.ch holds instead, and returns nil only on a message without error
\* descriptor that carries its identifier.
C35_FiredTokenStillWrites ==
    \A t \in Threads :
        CalledFired(t)
        => /\ (pc[t] = "sr_write" /\ mu = "free") => ENABLED SendRequestLock(t)
           /\ (Returned(t) /\ ret[t] # ErrWrite) => Parts(t, 2) = 1
           /\ pc[t] = "sr_wait" => ENABLED SendRequestCancel(t)
           /\ (Returned(t) /\ nRecv[t] = 0 /\ ret[t] # ErrWrite) => ret[t] = ErrDeadline
           /\ (Returned(t) /\ ret[t] = ErrNil)
              => /\ nRecv[t] >= 1
                 /\ lastMsg[t].Error.nil
                 /\ idMatches(lastMsg[t].ID, frame[t].id)

\* the call made with a fired token wrote its line, took the queued answer and
\* returned nil
C35_Witness ==
    /\ CalledFired("A")
    /\ pc["A"] = "done"
    /\ Parts("A", 2) = 1
    /\ nRecv["A"] >= 1
    /\ ret["A"] = ErrNil

\* fetchUsageFromPath gets as far as populateRateLimits: the auth file was
\* read and holds JSON, or there is none and the environment gives a key
FetchAttempted ==
    \/ arg.path = "ok"
    \/ arg.path \in {"", "unreadable"} /\ TrimSpace(arg.envAPIKey) # <<>>
\* plan, plan source and auth mode as the local auth data give them
LocalPlan ==
    IF KeyApplies THEN PlanAPIKey
    ELSE planFromTokens(arg.auth.Tokens.IDToken, arg.auth.Tokens.AccessToken)
LocalPlanSource == IF KeyApplies THEN "api key" ELSE "codex auth"
LocalAuthMode == IF arg.path = "ok" THEN arg.auth.AuthMode ELSE "api_key"

\* C36: when fetchUsageFromPath gets as far as the rate-limit fetch and the
\* fetch fails, it returns no error and a Usage with RateSource "unavailable",
\* Primary and Secondary nil, and Plan, PlanSource and AuthMode as the local
\* auth data give them; RateSource is "codex app-server" exactly when the
\* fetch succeeded.
C36_FetchFailureIsNotAnError ==
    (arg.fn = "fetchUsageFromPath" /\ res.set /\ FetchAttempted) =>
        /\ res.v.err = "nil"
        /\ arg.fetch.err =>
              /\ res.v.usage.RateSource = "unavailable"
              /\ res.v.usage.Primary = Nil /\ res.v.usage.Secondary = Nil
              /\ res.v.usage.Plan = LocalPlan
              /\ res.v.usage.PlanSource = LocalPlanSource
              /\ res.v.usage.AuthMode = LocalAuthMode
        /\ res.v.usage.RateSource = "codex app-server" <=> ~arg.fetch.err

\* the tokens name plan pro, the fetch failed, and the Usage has the plan and
\* no windows
C36_Witness ==
    /\ arg.fn = "fetchUsageFromPath" /\ res.set
    /\ arg.path = "ok" /\ ~KeyApplies
    /\ arg.fetch = FetchFailed
    /\ res.v.err = "nil"
    /\ res.v.usage.Plan = "pro"
    /\ res.v.usage.RateSource = "unavailable"

\* C37: fetchUsageFromPath returns ErrAuthNotFound exactly when there is no
\* auth file path or the file cannot be read, and the key of the environment
\* is blank once trimmed; it then returns no Usage and populateRateLimits has
\* not run, so that no app-server was launched.  A file that was read and
\* holds no valid JSON gives the parse error, whatever the key of the
\* environment.
C37_AuthNotFound ==
    (arg.fn = "fetchUsageFromPath" /\ res.set) =>
        /\ res.v.err = "ErrAuthNotFound"
           <=> (arg.path \in {"", "unreadable"} /\ TrimSpace(arg.envAPIKey) = <<>>)
        /\ res.v.err = "ErrAuthNotFound" => res.v.usage = NoUsage
        /\ res.v.usage.RateSource \in {"unavailable", "codex app-server"} <=> FetchAttempted
        /\ arg.path = "badjson" => (res.v.err = "parse" /\ res.v.usage = NoUsage)

\* the file cannot be read and the key of the environment is one space
C37_Witness ==
    /\ arg.fn = "fetchUsageFromPath" /\ res.set
    /\ arg.path = "unreadable"
    /\ arg.envAPIKey = <<" ">>
    /\ res.v.err = "ErrAuthNotFound"

====
